---- MODULE Spec2Model ----
(***************************************************************************)
(* Model of the image store of cri-image-service (package service):       *)
(* the layer cache (LayerCache), the catalog of image records              *)
(* (ImageService.images), the files under the image root, metadata.json,   *)
(* the pull and remove pipelines and the garbage collector.                *)
(***************************************************************************)
EXTENDS Integers, Sequences, FiniteSets, TLC

VARIABLES layerCache, evicted, loaded, images, files, inodes, mdNames, mdInodes, mu, procs, gc, faults, budget

vars == <<layerCache, evicted, loaded, images, files, inodes, mdNames, mdInodes, mu, procs, gc, faults, budget>>

----------------------------------------------------------------------------
(* Bounds of the model *)

\* the cache ceiling used by the service (a scaled-down defaultMaxCacheSize)
CacheLimit == 4
\* the field totalSize may drift below the real total; operations start only
\* while the drift is within this bound
MaxDrift == 4
\* number of injected I/O failures of the metadata write
MaxFaults == 2
\* number of calls of PullImage and RemoveImage made by concurrent callers
MaxCalls == 2
\* number of calls made one at a time
MaxSeqCalls == 5
\* number of passes of the garbage collector
MaxPasses == 2

Digests == {"d1", "d2", "d3"}
Refs == {"r1", "r2"}
Procs == {"p1", "p2"}

----------------------------------------------------------------------------
(* Generic helpers *)

RECURSIVE SumSet(_, _)
SumSet(S, f) ==
  IF S = {} THEN 0
  ELSE LET x == CHOOSE y \in S : TRUE IN f[x] + SumSet(S \ {x}, f)

RECURSIVE SeqSum(_)
SeqSum(s) == IF s = <<>> THEN 0 ELSE Head(s) + SeqSum(Tail(s))

Restrict(f, S) == [x \in S |-> f[x]]

SeqWithout(s, x) == SelectSeq(s, LAMBDA y : y # x)

----------------------------------------------------------------------------
(* Paths.  [dir, idx, base] is <imageRoot>/<hex(digest(dir))>/layer-<idx-1>/<base>  *)
(* (layers are counted from 1 here); the path "" of a LayerMetadata        *)
(* without a file is NoPath.                                               *)

NoPath == [dir |-> "", idx |-> 0, base |-> ""]
LayerPath(r, i) == [dir |-> r, idx |-> i, base |-> "layer.tar"]
TempPath(r, i) == [dir |-> r, idx |-> i, base |-> "layer.tar.tmp"]

\* os.Remove(path) on the names of the image root (IsNotExist is ignored)
OsRemove(fs, P) == Restrict(fs, DOMAIN fs \ P)

----------------------------------------------------------------------------
(* LayerCache (layers, lastUsed, totalSize, maxSize).  lastUsed is kept    *)
(* as the list of cached digests in ascending order of their time stamp.   *)
(* The variable evicted holds the digests that the evictLayers call of the *)
(* most recent Add deleted, in the order of their deletion.                *)

LayerMetadata(d, p, n) == [Digest |-> d, Path |-> p, Size |-> n]

NewLayerCache(maxSize) ==
  [layers |-> <<>>, lastUsed |-> <<>>, totalSize |-> 0, maxSize |-> maxSize]

Touch(lu, d) == Append(SeqWithout(lu, d), d)

\* Get: a hit refreshes lastUsed
Get(c, d) == IF d \in DOMAIN c.layers THEN [c EXCEPT !.lastUsed = Touch(c.lastUsed, d)] ELSE c

\* Remove: drops the entry and subtracts its size
Remove(c, d) ==
  IF d \in DOMAIN c.layers
  THEN [c EXCEPT !.totalSize = c.totalSize - c.layers[d].Size,
                 !.layers = Restrict(c.layers, DOMAIN c.layers \ {d}),
                 !.lastUsed = SeqWithout(c.lastUsed, d)]
  ELSE c

RECURSIVE RemoveAllOf(_, _)
RemoveAllOf(c, D) ==
  IF D = {} THEN c
  ELSE LET d == CHOOSE x \in D : TRUE IN RemoveAllOf(Remove(c, d), D \ {d})

\* a filter that lets entries of size 0 be evicted
Evictable_AnySize(md) == md.Size >= 0

\* the filter of evictLayers: entries of size 0 are skipped
Evictable(md) == md.Size > 0

\* evictLayers that takes its candidates newest first
EvictCandidates_NewestFirst(c) ==
  LET s == SelectSeq(c.lastUsed, LAMBDA d : Evictable(c.layers[d]))
  IN [i \in 1..Len(s) |-> s[Len(s) + 1 - i]]

\* the candidates of evictLayers: entries of positive size, oldest first
EvictCandidates(c) == SelectSeq(c.lastUsed, LAMBDA d : Evictable(c.layers[d]))

\* the loop of evictLayers: st = [c, freed, unlinked, evicted]
RECURSIVE EvictLoop(_, _, _)
EvictLoop(st, cands, spaceNeeded) ==
  IF cands = <<>> \/ st.freed >= spaceNeeded THEN st
  ELSE LET d == Head(cands)
           c == st.c
       IN IF d \in DOMAIN c.layers
          THEN EvictLoop([c |-> [c EXCEPT !.totalSize = c.totalSize - c.layers[d].Size,
                                          !.layers = Restrict(c.layers, DOMAIN c.layers \ {d}),
                                          !.lastUsed = SeqWithout(c.lastUsed, d)],
                          freed |-> st.freed + c.layers[d].Size,
                          unlinked |-> st.unlinked \cup ({c.layers[d].Path} \ {NoPath}),
                          evicted |-> Append(st.evicted, d)],
                         Tail(cands), spaceNeeded)
          ELSE EvictLoop(st, Tail(cands), spaceNeeded)

\* evictLayers that frees nothing
evictLayers_FreesNothing(c, spaceNeeded) ==
  [c |-> c, freed |-> 0, unlinked |-> {}, evicted |-> <<>>]

evictLayers(c, spaceNeeded) ==
  IF spaceNeeded <= 0 THEN [c |-> c, freed |-> 0, unlinked |-> {}, evicted |-> <<>>]
  ELSE EvictLoop([c |-> c, freed |-> 0, unlinked |-> {}, evicted |-> <<>>],
                 EvictCandidates(c), spaceNeeded)

\* the final insertion of Add
Insert(c, d, md) ==
  [c EXCEPT !.layers = [x \in DOMAIN c.layers \cup {d} |-> IF x = d THEN md ELSE c.layers[x]],
            !.lastUsed = Touch(c.lastUsed, d),
            !.totalSize = c.totalSize + md.Size]

\* Add that sends a cache of maxSize = 0 through eviction as well
Add_NoUnlimited(c, d, md) ==
  IF d = "" \/ md.Size < 0 \/ (c.maxSize > 0 /\ md.Size > c.maxSize)
  THEN [c |-> c, unlinked |-> {}, evicted |-> <<>>]
  ELSE LET c1 == IF d \in DOMAIN c.layers
                 THEN [c EXCEPT !.totalSize = c.totalSize - c.layers[d].Size] ELSE c
           ev == IF c1.totalSize + md.Size > c1.maxSize
                 THEN evictLayers(c1, c1.totalSize + md.Size - c1.maxSize)
                 ELSE [c |-> c1, freed |-> 0, unlinked |-> {}, evicted |-> <<>>]
       IN [c |-> Insert(ev.c, d, md), unlinked |-> ev.unlinked, evicted |-> ev.evicted]

\* Add: returns the new cache, the paths whose files eviction unlinked and
\* the digests eviction deleted, in the order of their deletion
Add(c, d, md) ==
  IF d = "" \/ md.Size < 0 THEN [c |-> c, unlinked |-> {}, evicted |-> <<>>]
  ELSE IF c.maxSize = 0
  THEN LET c1 == IF d \in DOMAIN c.layers
                 THEN [c EXCEPT !.totalSize = c.totalSize - c.layers[d].Size] ELSE c
       IN [c |-> Insert(c1, d, md), unlinked |-> {}, evicted |-> <<>>]
  ELSE IF md.Size > c.maxSize THEN [c |-> c, unlinked |-> {}, evicted |-> <<>>]
  ELSE LET c1 == IF d \in DOMAIN c.layers
                 THEN [c EXCEPT !.totalSize = c.totalSize - c.layers[d].Size] ELSE c
           ev == IF c1.totalSize + md.Size > c1.maxSize
                 THEN evictLayers(c1, c1.totalSize + md.Size - c1.maxSize)
                 ELSE [c |-> c1, freed |-> 0, unlinked |-> {}, evicted |-> <<>>]
       IN [c |-> Insert(ev.c, d, md), unlinked |-> ev.unlinked, evicted |-> ev.evicted]

\* the real total of the cache
EntriesSize(c) == SumSet(DOMAIN c.layers, [d \in DOMAIN c.layers |-> c.layers[d].Size])

----------------------------------------------------------------------------
(* State after construction *)

NoMeta == [Digest |-> "", Path |-> NoPath, Size |-> 0]
NoBlob == [dig |-> "", size |-> 0]
NoResult == [ok |-> FALSE, id |-> "", err |-> ""]
NoURL == [registry |-> "", repository |-> "", tag |-> ""]

\* a caller that is not inside PullImage or RemoveImage
IdleProc ==
  [pc |-> "idle", op |-> "", ref |-> "", manifest |-> <<>>, i |-> 0, layers |-> <<>>,
   totalSize |-> 0, md |-> NoMeta, blob |-> NoBlob, snap |-> <<>>, fd |-> 0, site |-> "",
   nreq |-> 0, auth |-> "", status |-> 0, url |-> NoURL, ctx |-> "live",
   result |-> NoResult]

\* GCStats without LastRun
NoStats == [TotalCollections |-> 0, TotalLayersRemoved |-> 0, LastCollectionSize |-> 0]

\* a collector between two passes, built by NewGarbageCollector.  layerFiles, referenced, removed and
\* totalSize are the locals of collectGarbage, seen the paths its loop has
\* handled; failed (the paths whose os.Remove failed) and unlinked (the
\* <<path, size>> of the files the pass has removed) record what the pass did.
\* run is the state of the goroutine gc.run ("none", "running", "exited"),
\* stopCh the channel ("open", "closed"), wg the counter of gc.wg and stop the
\* position of the caller of Stop ("", "waiting" in wg.Wait, "returned");
\* stoppedIn records where the collector was when Stop was called
IdleGC ==
  [pc |-> "idle", layerFiles |-> {}, referenced |-> {}, seen |-> {}, removed |-> 0,
   totalSize |-> 0, failed |-> {}, unlinked |-> {}, stats |-> NoStats,
   run |-> "none", stopCh |-> "open", wg |-> 0, stop |-> "", stoppedIn |-> ""]

InitService ==
  /\ images = <<>>
  /\ files = <<>>
  /\ inodes = <<>>
  /\ mdNames = <<>>
  /\ mdInodes = <<>>
  /\ mu = ""
  /\ procs = [p \in Procs |-> IdleProc]
  /\ gc = IdleGC
  /\ faults = 0
  /\ evicted = <<>>
  /\ loaded = <<>>

Init ==
  /\ layerCache = NewLayerCache(CacheLimit)
  /\ InitService
  /\ budget = MaxCalls

InitSeq ==
  /\ layerCache = NewLayerCache(CacheLimit)
  /\ InitService
  /\ budget = MaxSeqCalls

InitCache ==
  /\ layerCache \in {NewLayerCache(0), NewLayerCache(CacheLimit)}
  /\ InitService
  /\ budget = 0

service == <<loaded, images, files, inodes, mdNames, mdInodes, mu, procs, gc, faults, budget>>

----------------------------------------------------------------------------
(* The cache operations called directly (layer_cache tests): each holds    *)
(* c.mu from entry to return, so each is one step.                         *)

CacheAdd(d, n) ==
  /\ layerCache.totalSize >= 0 - MaxDrift
  /\ layerCache' = Add(layerCache, d, LayerMetadata(d, NoPath, n)).c
  /\ evicted' = Add(layerCache, d, LayerMetadata(d, NoPath, n)).evicted
  /\ UNCHANGED service

CacheGet(d) ==
  /\ layerCache' = Get(layerCache, d)
  /\ UNCHANGED <<evicted, service>>

CacheRemove(d) ==
  /\ layerCache' = Remove(layerCache, d)
  /\ UNCHANGED <<evicted, service>>

NextCache ==
  \/ \E d \in Digests \cup {""}, n \in (0 - 1)..(CacheLimit + 1) : CacheAdd(d, n)
  \/ \E d \in Digests : CacheGet(d)
  \/ \E d \in Digests : CacheRemove(d)

SpecCache == InitCache /\ [][NextCache]_vars

----------------------------------------------------------------------------
(* The registry: what it may answer.  A manifest lists layer descriptors   *)
(* (digest, declared size); a blob is the content served for a digest.     *)

\* byte length of the blob whose sha256 is the digest
BlobSize == [d \in Digests |-> IF d = "d2" THEN 1 ELSE 2]

Descriptor(d, n) == [Digest |-> d, Size |-> n]

\* reference strings of other forms: a fully qualified name with the tag
\* latest, a name with a tag, with a digest, with both, and a string that is
\* no reference (upper case in the repository name)
RefStrings ==
  {"r1", "docker.io/library/r1:latest", "r2:v1", "r2@sha256:d3", "r2:v1@sha256:d3", "R1"}

NoNamed == [ok |-> FALSE, domain |-> "", path |-> "", tag |-> "", digest |-> ""]

\* reference.ParseNormalizedNamed on the strings of Refs and RefStrings: a
\* name without a domain gets docker.io, a one-component path gets library/,
\* tag and digest are what the string carries ("" for none)
ParseNormalizedNamed(s) ==
  LET named(path, tag, dig) ==
        [ok |-> TRUE, domain |-> "docker.io", path |-> path, tag |-> tag, digest |-> dig]
  IN CASE s = "r1" -> named("library/r1", "", "")
       [] s = "docker.io/library/r1:latest" -> named("library/r1", "latest", "")
       [] s = "r2" -> named("library/r2", "", "")
       [] s = "r2:v1" -> named("library/r2", "v1", "")
       [] s = "r2@sha256:d3" -> named("library/r2", "", "sha256:d3")
       [] s = "r2:v1@sha256:d3" -> named("library/r2", "v1", "sha256:d3")
       [] OTHER -> NoNamed

\* reference.Domain and reference.Path
Domain(named) == named.domain
Path(named) == named.path

\* the URL of a manifest request: https://<registry>/v2/<repository>/manifests/<tag>
ManifestURL(registry, repository, tag) ==
  [registry |-> registry, repository |-> repository, tag |-> tag]

\* the layers of the image a registry serves for the repository of r
LayersOf ==
  [r \in Refs \cup RefStrings |->
     IF Path(ParseNormalizedNamed(r)) = "library/r1" THEN <<"d1", "d2">> ELSE <<"d1", "d3">>]

\* the manifests a registry may serve for r: sizes declared truthfully or not
Manifests(r, sizeOffs) ==
  { [k \in DOMAIN LayersOf[r] |-> Descriptor(LayersOf[r][k], BlobSize[LayersOf[r][k]] + off)]
      : off \in sizeOffs }

\* the bytes served for digest d: the blob itself or other bytes of that length
Blobs(d) == { [dig |-> d, size |-> BlobSize[d]], [dig |-> "bad", size |-> BlobSize[d]] }

EmptyFile == [dig |-> "empty", size |-> 0]

\* digest.FromString(imageRef) and the image ID derived from it
ReferenceDigest(r) == [alg |-> "sha256", of |-> r]
\* an image ID that does not depend on the reference
ImageID_Fixed(r) == [prefix |-> "sha256:", hexOfHex |-> [alg |-> "sha256", of |-> ""]]

ImageID(r) == [prefix |-> "sha256:", hexOfHex |-> ReferenceDigest(r)]

imageMetadata(r, size, layers) ==
  [ID |-> ImageID(r), RepoTags |-> <<r>>, RepoDigests |-> <<<<r, ReferenceDigest(r)>>>>,
   Size |-> size, Layers |-> layers]

Ok(id) == [ok |-> TRUE, id |-> id, err |-> ""]
Err(e) == [ok |-> FALSE, id |-> "", err |-> e]

----------------------------------------------------------------------------
(* Files under the image root: files maps a name to its inode, inodes an  *)
(* inode to its content, so that hard links share their content.           *)

InodeIds == 1..(2 * Cardinality(Refs) * 2)

FreshInode(ino) == CHOOSE k \in InodeIds : k \notin DOMAIN ino /\ \A j \in InodeIds : j < k => j \in DOMAIN ino

\* drop the inodes no name refers to
Prune(fs, ino) == Restrict(ino, {fs[p] : p \in DOMAIN fs})

Put(f, x, v) == [y \in DOMAIN f \cup {x} |-> IF y = x THEN v ELSE f[y]]

\* os.Create(path) followed by writing content and closing the file
CreateWrite(fs, ino, path, content) ==
  IF path \in DOMAIN fs
  THEN [fs |-> fs, ino |-> [ino EXCEPT ![fs[path]] = content]]
  ELSE LET k == FreshInode(ino) IN [fs |-> Put(fs, path, k), ino |-> Put(ino, k, content)]

\* os.Rename(old, new); old exists
Rename(fs, ino, old, new) ==
  LET fs1 == Put(Restrict(fs, DOMAIN fs \ {old}), new, fs[old])
  IN [fs |-> fs1, ino |-> Prune(fs1, ino)]

\* os.Remove of a set of names
Unlink(fs, ino, P) ==
  LET fs1 == OsRemove(fs, P) IN [fs |-> fs1, ino |-> Prune(fs1, ino)]

\* reuseLayer(src, dest), src exists: hard link, else copy over dest
reuseLayer(fs, ino, src, dest) ==
  IF dest \notin DOMAIN fs
  THEN [fs |-> Put(fs, dest, fs[src]), ino |-> ino]
  ELSE LET truncated == [ino EXCEPT ![fs[dest]] = EmptyFile]
       IN [fs |-> fs, ino |-> [truncated EXCEPT ![fs[dest]] = truncated[fs[src]]]]

----------------------------------------------------------------------------
(* PullImage: pullImage and downloadImage, one action per step at which    *)
(* another caller can interleave.                                          *)

SetProc(p, rec) == procs' = [procs EXCEPT ![p] = rec]

\* the call returns: what the caller gets back
Finish(pr, res) ==
  [IdleProc EXCEPT !.pc = "done", !.op = pr.op, !.ref = pr.ref, !.result = res,
                   !.nreq = pr.nreq, !.manifest = pr.manifest, !.layers = pr.layers,
                   !.totalSize = pr.totalSize, !.status = pr.status, !.url = pr.url,
                   !.ctx = pr.ctx]

\* checkRegistry: the error for a probe answer ("" is nil)
checkRegistry(auth, status) ==
  IF status \in {200, 401}
  THEN IF auth = "nil" /\ status = 401 THEN "authentication required" ELSE ""
  ELSE IF status = 403 THEN "authentication failed"
  ELSE "registry check failed"

\* pullImage without the pre-check of the catalog
PullImage_NoPreCheck(p, r, auth) ==
  /\ procs[p].pc = "idle"
  /\ mu = ""
  /\ layerCache.totalSize >= 0 - MaxDrift
  /\ budget > 0
  /\ budget' = budget - 1
  /\ SetProc(p, [IdleProc EXCEPT !.op = "pull", !.ref = r, !.auth = auth, !.pc = "probe"])
  /\ UNCHANGED <<layerCache, images, files, inodes, mdNames, mdInodes, mu, gc, evicted, loaded, faults>>

\* pullImage, up to the pre-check under s.mu.RLock
PullImage(p, r, auth) ==
  /\ procs[p].pc = "idle"
  /\ mu = ""
  /\ layerCache.totalSize >= 0 - MaxDrift
  /\ budget > 0
  /\ budget' = budget - 1
  /\ LET pr == [IdleProc EXCEPT !.op = "pull", !.ref = r]
     IN SetProc(p, IF ~ParseNormalizedNamed(r).ok THEN Finish(pr, Err("invalid image reference"))
                   ELSE IF r \in DOMAIN images THEN Finish(pr, Ok(images[r].ID))
                   ELSE [pr EXCEPT !.pc = "probe", !.auth = auth])
  /\ UNCHANGED <<layerCache, images, files, inodes, mdNames, mdInodes, mu, gc, evicted, loaded, faults>>

\* getRegistryClient: GET /v2/, sent with context.Background() whatever the
\* context of the call, answered with status.  The requests that
\* follow are answered whatever header they carry, so auth is dropped here
Probe(p, status) ==
  /\ procs[p].pc = "probe"
  /\ LET pr == [procs[p] EXCEPT !.nreq = @ + 1, !.status = status, !.auth = ""]
         e == checkRegistry(procs[p].auth, status)
     IN SetProc(p, IF e = "" THEN [pr EXCEPT !.pc = "manifest"] ELSE Finish(pr, Err(e)))
  /\ UNCHANGED <<layerCache, images, files, inodes, mdNames, mdInodes, mu, gc, evicted, loaded, faults, budget>>

\* the caller cancels the context it passed to PullImage
Cancel(p) ==
  /\ procs[p].op = "pull"
  /\ procs[p].pc \notin {"idle", "done"}
  /\ procs[p].ctx = "live"
  /\ SetProc(p, [procs[p] EXCEPT !.ctx = "cancelled"])
  /\ UNCHANGED <<layerCache, images, files, inodes, mdNames, mdInodes, mu, gc, evicted, loaded,
                 faults, budget>>

\* a loop that goes on to the insertion after the first layer
NextLayer_AfterFirst(pr) ==
  IF pr.i < 1
  THEN [pr EXCEPT !.pc = "layer", !.i = @ + 1, !.md = NoMeta, !.blob = NoBlob]
  ELSE [pr EXCEPT !.pc = "insert", !.i = 0, !.md = NoMeta, !.blob = NoBlob]

\* the position after layer i has been handled
NextLayer(pr) ==
  IF pr.i < Len(pr.manifest)
  THEN [pr EXCEPT !.pc = "layer", !.i = @ + 1, !.md = NoMeta, !.blob = NoBlob]
  ELSE [pr EXCEPT !.pc = "insert", !.i = 0, !.md = NoMeta, !.blob = NoBlob]

\* getManifest and the creation of the image directory; with a cancelled
\* context s.client.Do returns an error and no request is sent
GetManifest(p, okStatus, m) ==
  /\ procs[p].pc = "manifest"
  /\ LET named == ParseNormalizedNamed(procs[p].ref)
         pr == [procs[p] EXCEPT !.nreq = @ + 1, !.status = 0,
                                !.url = ManifestURL(Domain(named), Path(named), "latest")]
     IN SetProc(p, IF procs[p].ctx = "cancelled"
                   THEN Finish([procs[p] EXCEPT !.status = 0], Err("failed to get manifest"))
                   ELSE IF okStatus THEN NextLayer([pr EXCEPT !.manifest = m])
                   ELSE Finish(pr, Err("failed to get manifest")))
  /\ UNCHANGED <<layerCache, images, files, inodes, mdNames, mdInodes, mu, gc, evicted, loaded, faults, budget>>

\* s.layerCache.Get(layer.Digest)
LayerGet(p) ==
  /\ procs[p].pc = "layer"
  /\ LET pr == procs[p]
         d == pr.manifest[pr.i].Digest
     IN /\ layerCache' = Get(layerCache, d)
        /\ SetProc(p, IF d \in DOMAIN layerCache.layers
                      THEN [pr EXCEPT !.pc = "reuse", !.md = layerCache.layers[d]]
                      ELSE [pr EXCEPT !.pc = "download"])
  /\ UNCHANGED <<images, files, inodes, mdNames, mdInodes, mu, gc, evicted, loaded, faults, budget>>

\* os.Stat(metadata.Path) and reuseLayer(metadata.Path, layerPath); when
\* reuseLayer fails (before it creates the destination) the entry leaves the
\* cache and the layer is downloaded
ReuseLayer(p, fail) ==
  /\ procs[p].pc = "reuse"
  /\ LET pr == procs[p]
         dest == LayerPath(pr.ref, pr.i)
     IN IF pr.md.Path \notin DOMAIN files
        THEN /\ ~fail
             /\ SetProc(p, [pr EXCEPT !.pc = "download", !.md = NoMeta])
             /\ UNCHANGED <<layerCache, files, inodes, faults>>
        ELSE IF fail
        THEN /\ faults < MaxFaults
             /\ faults' = faults + 1
             /\ layerCache' = Remove(layerCache, pr.md.Digest)
             /\ SetProc(p, [pr EXCEPT !.pc = "download", !.md = NoMeta])
             /\ UNCHANGED <<files, inodes>>
        ELSE LET fs == reuseLayer(files, inodes, pr.md.Path, dest)
             IN /\ files' = fs.fs
                /\ inodes' = fs.ino
                /\ SetProc(p, NextLayer([pr EXCEPT !.layers = Append(@, pr.md),
                                                   !.totalSize = @ + pr.md.Size]))
                /\ UNCHANGED <<layerCache, faults>>
  /\ UNCHANGED <<images, mdNames, mdInodes, mu, gc, evicted, loaded, budget>>

\* downloadLayer: GET the blob and stream it into layer.tar.tmp.  answer is
\* "ok", "status" (not 200) or "copy" (the stream breaks: the temp file is
\* removed); with a cancelled context s.client.Do returns an error and no
\* request is sent
DownloadLayer(p, answer, blob) ==
  /\ procs[p].pc = "download"
  /\ LET pr == [procs[p] EXCEPT !.nreq = @ + 1]
         tmp == TempPath(pr.ref, pr.i)
         fs == CreateWrite(files, inodes, tmp, blob)
         rm == Unlink(files, inodes, {tmp})
     IN IF procs[p].ctx = "cancelled"
        THEN /\ SetProc(p, Finish(procs[p], Err("failed to download layer")))
             /\ UNCHANGED <<files, inodes>>
        ELSE IF answer = "ok"
        THEN /\ files' = fs.fs
             /\ inodes' = fs.ino
             /\ SetProc(p, [pr EXCEPT !.pc = "verify", !.blob = blob])
        ELSE IF answer = "copy"
        THEN /\ files' = rm.fs
             /\ inodes' = rm.ino
             /\ SetProc(p, Finish(pr, Err("failed to save layer")))
        ELSE /\ SetProc(p, Finish(pr, Err("failed to download layer")))
             /\ UNCHANGED <<files, inodes>>
  /\ UNCHANGED <<layerCache, images, mdNames, mdInodes, mu, gc, evicted, loaded, faults, budget>>

\* saveLayer that renames without comparing the digests
VerifyLayer_NoCompare(p) ==
  /\ procs[p].pc = "verify"
  /\ LET pr == procs[p]
         tmp == TempPath(pr.ref, pr.i)
     IN IF tmp \in DOMAIN files
        THEN LET mv == Rename(files, inodes, tmp, LayerPath(pr.ref, pr.i))
             IN /\ files' = mv.fs
                /\ inodes' = mv.ino
                /\ SetProc(p, [pr EXCEPT !.pc = "stat", !.blob = NoBlob])
        ELSE /\ SetProc(p, Finish(pr, Err("failed to move verified layer")))
             /\ UNCHANGED <<files, inodes>>
  /\ UNCHANGED <<layerCache, images, mdNames, mdInodes, mu, gc, evicted, loaded, faults, budget>>

\* saveLayer after the copy: compare the digests, then remove or rename
VerifyLayer(p) ==
  /\ procs[p].pc = "verify"
  /\ LET pr == procs[p]
         tmp == TempPath(pr.ref, pr.i)
         rm == Unlink(files, inodes, {tmp})
     IN IF pr.blob.dig # pr.manifest[pr.i].Digest
        THEN /\ files' = rm.fs
             /\ inodes' = rm.ino
             /\ SetProc(p, Finish(pr, Err("layer digest mismatch")))
        ELSE IF tmp \in DOMAIN files
        THEN LET mv == Rename(files, inodes, tmp, LayerPath(pr.ref, pr.i))
             IN /\ files' = mv.fs
                /\ inodes' = mv.ino
                /\ SetProc(p, [pr EXCEPT !.pc = "stat", !.blob = NoBlob])
        ELSE /\ SetProc(p, Finish(pr, Err("failed to move verified layer")))
             /\ UNCHANGED <<files, inodes>>
  /\ UNCHANGED <<layerCache, images, mdNames, mdInodes, mu, gc, evicted, loaded, faults, budget>>

\* os.Stat(layerPath), s.layerCache.Add and the bookkeeping of the loop
CacheLayer(p) ==
  /\ procs[p].pc = "stat"
  /\ LET pr == procs[p]
         path == LayerPath(pr.ref, pr.i)
         desc == pr.manifest[pr.i]
     IN IF path \in DOMAIN files
        THEN LET metadata == LayerMetadata(desc.Digest, path, inodes[files[path]].size)
                 res == Add(layerCache, desc.Digest, metadata)
                 rm == Unlink(files, inodes, res.unlinked)
             IN /\ layerCache' = res.c
                /\ evicted' = res.evicted
                /\ files' = rm.fs
                /\ inodes' = rm.ino
                /\ SetProc(p, NextLayer([pr EXCEPT !.layers = Append(@, metadata),
                                                   !.totalSize = @ + desc.Size]))
        ELSE /\ SetProc(p, Finish(pr, Err("failed to get layer size")))
             /\ UNCHANGED <<layerCache, evicted, files, inodes>>
  /\ UNCHANGED <<loaded, images, mdNames, mdInodes, mu, gc, faults, budget>>

----------------------------------------------------------------------------
(* metadata.json and metadata.json.tmp: names, inodes and their content    *)

MetaFile == "metadata.json"
MetaTemp == "metadata.json.tmp"

MdInodeIds == 1..(2 + Cardinality(Procs))

\* encoding/json of a slice: null for the nil slice, else the list of the
\* encoded elements
JSONArray(items) == [null |-> items = <<>>, items |-> items]

\* the JSON object of a LayerMetadata (tags digest, path, size)
JSONLayer(l) == [digest |-> l.Digest, path |-> l.Path, size |-> l.Size]

\* a serialization that writes no layer list
MarshalIndent_NoLayers(cat) ==
  [r \in DOMAIN cat |->
     [id |-> cat[r].ID,
      repo_tags |-> JSONArray(cat[r].RepoTags),
      repo_digests |-> JSONArray(cat[r].RepoDigests),
      size |-> cat[r].Size,
      layers |-> JSONArray(<<>>)]]

\* json.MarshalIndent(s.images): one member per reference, whose value is
\* the object of the record (tags id, repo_tags, repo_digests, size, layers)
MarshalIndent(cat) ==
  [r \in DOMAIN cat |->
     [id |-> cat[r].ID,
      repo_tags |-> JSONArray(cat[r].RepoTags),
      repo_digests |-> JSONArray(cat[r].RepoDigests),
      size |-> cat[r].Size,
      layers |-> JSONArray([k \in DOMAIN cat[r].Layers |-> JSONLayer(cat[r].Layers[k])])]]

\* json.Unmarshal(data, &s.images): every member of the document becomes a
\* new record under its key, the other keys of the map stay
Unmarshal(doc, into) ==
  [r \in DOMAIN into \cup DOMAIN doc |->
     IF r \in DOMAIN doc
     THEN [ID |-> doc[r].id,
           RepoTags |-> doc[r].repo_tags.items,
           RepoDigests |-> doc[r].repo_digests.items,
           Size |-> doc[r].size,
           Layers |-> [k \in DOMAIN doc[r].layers.items |->
                         [Digest |-> doc[r].layers.items[k].digest,
                          Path |-> doc[r].layers.items[k].path,
                          Size |-> doc[r].layers.items[k].size]]]
     ELSE into[r]]

\* content of a metadata inode: truncated, or the serialization of a catalog
Truncated == [full |-> FALSE, doc |-> <<>>]
Serialized(cat) == [full |-> TRUE, doc |-> MarshalIndent(cat)]

\* loadMetadata into the catalog into: a missing file loads nothing, a file
\* that is not a whole document fails and changes nothing
loadMetadata(names, ino, into) ==
  IF MetaFile \notin DOMAIN names THEN [images |-> into, err |-> ""]
  ELSE IF ~ino[names[MetaFile]].full THEN [images |-> into, err |-> "failed to unmarshal metadata"]
  ELSE [images |-> Unmarshal(ino[names[MetaFile]].doc, into), err |-> ""]

OpenFds(ps) == {ps[q].fd : q \in Procs} \ {0}

MdPrune(names, ino, ps) == Restrict(ino, {names[n] : n \in DOMAIN names} \cup OpenFds(ps))

MdFresh(ino) == CHOOSE k \in MdInodeIds : k \notin DOMAIN ino /\ \A j \in MdInodeIds : j < k => j \in DOMAIN ino

\* how a caller goes on after saveMetadata returned nil
SaveDone(pr) ==
  IF pr.site = "download" THEN [pr EXCEPT !.pc = "commit", !.snap = <<>>, !.fd = 0, !.site = ""]
  ELSE IF pr.site = "pull" THEN Finish(pr, Ok(ImageID(pr.ref)))
  ELSE Finish(pr, Ok(""))

\* how a caller goes on after saveMetadata returned an error
SaveFailed(pr) == Finish(pr, Err("failed to save metadata"))

\* return paths of removeImage and AddImage that keep s.mu
Unlocked_KeepsLock(pr) == mu

\* removeImage and AddImage hold s.mu until they return (defer s.mu.Unlock);
\* pullImage and downloadImage call saveMetadata after s.mu.Unlock
Unlocked(pr) == IF pr.site \in {"remove", "add"} THEN "" ELSE mu

\* saveMetadata: data = json.MarshalIndent(s.images); snap is the catalog
\* the call serializes
SaveMarshal(p) ==
  /\ procs[p].pc = "savemarshal"
  /\ SetProc(p, [procs[p] EXCEPT !.pc = "saveopen", !.snap = images])
  /\ UNCHANGED <<layerCache, images, files, inodes, mdNames, mdInodes, mu, gc, evicted, loaded,
                 faults, budget>>

\* saveMetadata: the open of os.WriteFile, which creates or truncates the
\* temporary file
SaveOpen(p, fail) ==
  /\ procs[p].pc = "saveopen"
  /\ LET pr == procs[p]
     IN IF fail
        THEN /\ faults < MaxFaults
             /\ faults' = faults + 1
             /\ SetProc(p, SaveFailed(pr))
             /\ mu' = Unlocked(pr)
             /\ UNCHANGED <<mdNames, mdInodes>>
        ELSE LET k == IF MetaTemp \in DOMAIN mdNames THEN mdNames[MetaTemp] ELSE MdFresh(mdInodes)
             IN /\ mdNames' = Put(mdNames, MetaTemp, k)
                /\ mdInodes' = Put(mdInodes, k, Truncated)
                /\ SetProc(p, [pr EXCEPT !.pc = "savewrite", !.fd = k])
                /\ UNCHANGED <<mu, faults>>
  /\ UNCHANGED <<layerCache, images, files, inodes, gc, evicted, loaded, budget>>

\* saveMetadata: the write and close of os.WriteFile
SaveWrite(p) ==
  /\ procs[p].pc = "savewrite"
  /\ LET pr == procs[p]
         ps == [procs EXCEPT ![p] = [pr EXCEPT !.pc = "saverename", !.fd = 0]]
     IN /\ procs' = ps
        /\ mdInodes' = MdPrune(mdNames, [mdInodes EXCEPT ![pr.fd] = Serialized(pr.snap)], ps)
  /\ UNCHANGED <<layerCache, images, files, inodes, mdNames, mu, gc, evicted, loaded, faults, budget>>

\* saveMetadata: os.Rename(tempFile, s.metadataFile)
SaveRename(p) ==
  /\ procs[p].pc = "saverename"
  /\ LET pr == procs[p]
     IN IF MetaTemp \in DOMAIN mdNames
        THEN LET names == Put(Restrict(mdNames, DOMAIN mdNames \ {MetaTemp}), MetaFile, mdNames[MetaTemp])
                 ps == [procs EXCEPT ![p] = SaveDone(pr)]
             IN /\ mdNames' = names
                /\ procs' = ps
                /\ mdInodes' = MdPrune(names, mdInodes, ps)
        ELSE /\ SetProc(p, SaveFailed(pr))
             /\ UNCHANGED <<mdNames, mdInodes>>
  /\ mu' = Unlocked(procs[p])
  /\ UNCHANGED <<layerCache, images, files, inodes, gc, evicted, loaded, faults, budget>>

\* downloadImage: s.images[imageRef] = record with the layers, under s.mu.Lock
InsertRecord(p) ==
  /\ procs[p].pc = "insert"
  /\ mu = ""
  /\ LET pr == procs[p]
     IN /\ images' = Put(images, pr.ref, imageMetadata(pr.ref, pr.totalSize, pr.layers))
        /\ SetProc(p, [pr EXCEPT !.pc = "savemarshal", !.site = "download"])
  /\ UNCHANGED <<layerCache, files, inodes, mdNames, mdInodes, mu, gc, evicted, loaded, faults, budget>>

\* pullImage: s.images[imageRef] = record without Layers, under s.mu.Lock
CommitRecord(p) ==
  /\ procs[p].pc = "commit"
  /\ mu = ""
  /\ LET pr == procs[p]
     IN /\ images' = Put(images, pr.ref, imageMetadata(pr.ref, pr.totalSize, <<>>))
        /\ SetProc(p, [pr EXCEPT !.pc = "savemarshal", !.site = "pull"])
  /\ UNCHANGED <<layerCache, files, inodes, mdNames, mdInodes, mu, gc, evicted, loaded, faults, budget>>

\* PullImage / RemoveImage hand the result to the caller
Return(p) ==
  /\ procs[p].pc = "done"
  /\ SetProc(p, IdleProc)
  /\ UNCHANGED <<layerCache, images, files, inodes, mdNames, mdInodes, mu, gc, evicted, loaded, faults, budget>>

\* a new service on the same image root (images = make(map), then
\* loadMetadata); loaded is the catalog of that service
LoadMetadata ==
  /\ loaded' = loadMetadata(mdNames, mdInodes, <<>>).images
  /\ UNCHANGED <<layerCache, evicted, images, files, inodes, mdNames, mdInodes, mu, procs, gc,
                 faults, budget>>

----------------------------------------------------------------------------
(* RemoveImage *)

\* digests of the layers of the records other than r
LayersInUse(imgs, r) ==
  {imgs[o].Layers[k].Digest : <<o, k>> \in {ok \in (DOMAIN imgs \ {r}) \X (1..2) : ok[2] \in DOMAIN imgs[ok[1]].Layers}}

\* removeImage without the lookup of the reference
RemoveImage_NoLookup(p, r) ==
  /\ procs[p].pc = "idle"
  /\ mu = ""
  /\ budget > 0
  /\ LET pr == [IdleProc EXCEPT !.op = "remove", !.ref = r, !.site = "remove"]
         own == IF r \in DOMAIN images
                THEN {images[r].Layers[k] : k \in DOMAIN images[r].Layers} ELSE {}
         drop == {l \in own : l.Digest \notin LayersInUse(images, r)}
         rm == Unlink(files, inodes, {l.Path : l \in drop} \ {NoPath})
     IN /\ layerCache' = RemoveAllOf(layerCache, {l.Digest : l \in drop})
        /\ files' = rm.fs
        /\ inodes' = rm.ino
        /\ mu' = p
        /\ SetProc(p, [pr EXCEPT !.pc = "rmdir"])
  /\ UNCHANGED <<images, mdNames, mdInodes, gc, evicted, loaded, faults>>
  /\ budget' = budget - 1

\* removeImage up to the removal of the unshared layers; takes s.mu.Lock
RemoveImage(p, r) ==
  /\ procs[p].pc = "idle"
  /\ mu = ""
  /\ budget > 0
  /\ LET pr == [IdleProc EXCEPT !.op = "remove", !.ref = r, !.site = "remove"]
     IN IF r \notin DOMAIN images
        THEN /\ SetProc(p, Finish(pr, Err("image not found")))
             /\ UNCHANGED <<layerCache, files, inodes, mu>>
        ELSE LET own == {images[r].Layers[k] : k \in DOMAIN images[r].Layers}
                 drop == {l \in own : l.Digest \notin LayersInUse(images, r)}
                 rm == Unlink(files, inodes, {l.Path : l \in drop} \ {NoPath})
             IN /\ layerCache' = RemoveAllOf(layerCache, {l.Digest : l \in drop})
                /\ files' = rm.fs
                /\ inodes' = rm.ino
                /\ mu' = p
                /\ SetProc(p, [pr EXCEPT !.pc = "rmdir", !.layers = images[r].Layers])
  /\ UNCHANGED <<images, mdNames, mdInodes, gc, evicted, loaded, faults>>
  /\ budget' = budget - 1

\* removeImage that deletes the record before it removes the directory
RemoveDir_DeleteFirst(p, fail) ==
  /\ procs[p].pc = "rmdir"
  /\ LET pr == procs[p]
         rm == Unlink(files, inodes, {f \in DOMAIN files : f.dir = pr.ref})
     IN IF fail
        THEN /\ faults < MaxFaults
             /\ faults' = faults + 1
             /\ mu' = ""
             /\ images' = Restrict(images, DOMAIN images \ {pr.ref})
             /\ SetProc(p, Finish(pr, Err("failed to remove image directory")))
             /\ UNCHANGED <<files, inodes>>
        ELSE /\ files' = rm.fs
             /\ inodes' = rm.ino
             /\ images' = Restrict(images, DOMAIN images \ {pr.ref})
             /\ SetProc(p, [pr EXCEPT !.pc = "savemarshal"])
             /\ UNCHANGED <<mu, faults>>
  /\ UNCHANGED <<layerCache, mdNames, mdInodes, gc, evicted, loaded, budget>>

\* os.RemoveAll(imageDir) and delete(s.images, imageRef); when RemoveAll fails
\* removeImage returns the error and the deferred Unlock runs
RemoveDir(p, fail) ==
  /\ procs[p].pc = "rmdir"
  /\ LET pr == procs[p]
         rm == Unlink(files, inodes, {f \in DOMAIN files : f.dir = pr.ref})
     IN IF fail
        THEN /\ faults < MaxFaults
             /\ faults' = faults + 1
             /\ mu' = ""
             /\ SetProc(p, Finish(pr, Err("failed to remove image directory")))
             /\ UNCHANGED <<files, inodes, images>>
        ELSE /\ files' = rm.fs
             /\ inodes' = rm.ino
             /\ images' = Restrict(images, DOMAIN images \ {pr.ref})
             /\ SetProc(p, [pr EXCEPT !.pc = "savemarshal"])
             /\ UNCHANGED <<mu, faults>>
  /\ UNCHANGED <<layerCache, mdNames, mdInodes, gc, evicted, loaded, budget>>

----------------------------------------------------------------------------
(* ImageService.AddImage, ImageStatus, ListImages *)

\* the record a caller of AddImage hands in: an ID of the caller's choice,
\* RepoTags and Size; RepoDigests and Layers are nil
AddedRecord(r) ==
  [ID |-> [prefix |-> "sha256:", hexOfHex |-> [alg |-> "test", of |-> r]],
   RepoTags |-> <<r>>, RepoDigests |-> <<>>, Size |-> 1, Layers |-> <<>>]

\* AddImage without the lock
AddImage_NoLock(p, r) ==
  /\ procs[p].pc = "idle"
  /\ budget > 0
  /\ budget' = budget - 1
  /\ images' = Put(images, r, AddedRecord(r))
  /\ SetProc(p, [IdleProc EXCEPT !.op = "add", !.ref = r, !.pc = "savemarshal"])
  /\ UNCHANGED <<layerCache, files, inodes, mdNames, mdInodes, mu, gc, evicted, loaded, faults>>

\* AddImage: s.mu.Lock, s.images[imageRef] = img, then saveMetadata with
\* the lock held until the return (defer s.mu.Unlock)
AddImage(p, r) ==
  /\ procs[p].pc = "idle"
  /\ mu = ""
  /\ budget > 0
  /\ budget' = budget - 1
  /\ mu' = p
  /\ images' = Put(images, r, AddedRecord(r))
  /\ SetProc(p, [IdleProc EXCEPT !.op = "add", !.ref = r, !.site = "add", !.pc = "savemarshal"])
  /\ UNCHANGED <<layerCache, files, inodes, mdNames, mdInodes, gc, evicted, loaded, faults>>

\* ImageStatus: the lookup s.images[imageRef] between s.mu.RLock and the
\* deferred RUnlock
ImageStatus(p, r) ==
  /\ procs[p].pc = "idle"
  /\ mu = ""
  /\ budget > 0
  /\ budget' = budget - 1
  /\ LET pr == [IdleProc EXCEPT !.op = "status", !.ref = r]
     IN SetProc(p, Finish(pr, IF r \in DOMAIN images THEN Ok(images[r].ID) ELSE Err("image not found")))
  /\ UNCHANGED <<layerCache, images, files, inodes, mdNames, mdInodes, mu, gc, evicted, loaded, faults>>

\* ListImages: the loop "for _, img := range s.images" starts; the method
\* takes no lock.  snap is the catalog as the loop finds it
ListImages(p) ==
  /\ procs[p].pc = "idle"
  /\ budget > 0
  /\ budget' = budget - 1
  /\ SetProc(p, [IdleProc EXCEPT !.op = "list", !.pc = "listing", !.snap = images])
  /\ UNCHANGED <<layerCache, images, files, inodes, mdNames, mdInodes, mu, gc, evicted, loaded, faults>>

\* ListImages: the loop ends and the method returns (images, nil)
ListImagesDone(p) ==
  /\ procs[p].pc = "listing"
  /\ SetProc(p, Finish(procs[p], Ok("")))
  /\ UNCHANGED <<layerCache, images, files, inodes, mdNames, mdInodes, mu, gc, evicted, loaded, faults, budget>>

----------------------------------------------------------------------------
(* GarbageCollector.collectGarbage *)

\* a collector that takes no path for referenced
ReferencedPaths_None(imgs) == {}

ReferencedPaths(imgs) ==
  UNION {{imgs[r].Layers[k].Path : k \in DOMAIN imgs[r].Layers} : r \in DOMAIN imgs}

\* filepath.Walk: the files named layer.tar under the image root
GCWalk ==
  /\ gc.pc = "idle"
  /\ gc.stats.TotalCollections < MaxPasses
  /\ gc' = [gc EXCEPT !.pc = "scan", !.layerFiles = {f \in DOMAIN files : f.base = "layer.tar"}]
  /\ UNCHANGED <<layerCache, evicted, loaded, images, files, inodes, mdNames, mdInodes, mu, procs, faults, budget>>

\* the paths referenced by the records, read under s.mu.RLock
GCScan ==
  /\ gc.pc = "scan"
  /\ mu = ""
  /\ gc' = [gc EXCEPT !.pc = "sweep", !.referenced = ReferencedPaths(images)]
  /\ UNCHANGED <<layerCache, evicted, loaded, images, files, inodes, mdNames, mdInodes, mu, procs, faults, budget>>

\* a loop that returns from the pass when os.Remove fails
GCSweep_AbortOnFailure(path, fail) ==
  /\ gc.pc = "sweep"
  /\ path \in (gc.layerFiles \ gc.referenced) \ gc.seen
  /\ IF path \notin DOMAIN files
     THEN /\ ~fail
          /\ gc' = [gc EXCEPT !.seen = @ \cup {path}]
          /\ UNCHANGED <<files, inodes, faults>>
     ELSE LET size == inodes[files[path]].size
          IN IF fail
             THEN /\ faults < MaxFaults
                  /\ faults' = faults + 1
                  /\ gc' = [gc EXCEPT !.pc = "idle", !.layerFiles = {}, !.referenced = {},
                                      !.seen = {}, !.removed = 0, !.totalSize = 0,
                                      !.failed = {}, !.unlinked = {}]
                  /\ UNCHANGED <<files, inodes>>
             ELSE LET rm == Unlink(files, inodes, {path})
                  IN /\ files' = rm.fs
                     /\ inodes' = rm.ino
                     /\ gc' = [gc EXCEPT !.seen = @ \cup {path}, !.totalSize = @ + size,
                                         !.removed = @ + 1,
                                         !.unlinked = @ \cup {<<path, size>>}]
                     /\ UNCHANGED faults
  /\ UNCHANGED <<layerCache, evicted, loaded, images, mdNames, mdInodes, mu, procs, budget>>

\* one turn of the loop over layerFiles, for an unreferenced path: os.Stat,
\* totalSize += info.Size(), os.Remove and removed++; fail is the failure of
\* os.Remove with an error other than IsNotExist
GCSweep(path, fail) ==
  /\ gc.pc = "sweep"
  /\ path \in (gc.layerFiles \ gc.referenced) \ gc.seen
  /\ IF path \notin DOMAIN files
     THEN /\ ~fail
          /\ gc' = [gc EXCEPT !.seen = @ \cup {path}]
          /\ UNCHANGED <<files, inodes, faults>>
     ELSE LET size == inodes[files[path]].size
          IN IF fail
             THEN /\ faults < MaxFaults
                  /\ faults' = faults + 1
                  /\ gc' = [gc EXCEPT !.seen = @ \cup {path}, !.totalSize = @ + size,
                                      !.failed = @ \cup {path}]
                  /\ UNCHANGED <<files, inodes>>
             ELSE LET rm == Unlink(files, inodes, {path})
                  IN /\ files' = rm.fs
                     /\ inodes' = rm.ino
                     /\ gc' = [gc EXCEPT !.seen = @ \cup {path}, !.totalSize = @ + size,
                                         !.removed = @ + 1,
                                         !.unlinked = @ \cup {<<path, size>>}]
                     /\ UNCHANGED faults
  /\ UNCHANGED <<layerCache, evicted, loaded, images, mdNames, mdInodes, mu, procs, budget>>

\* the end of collectGarbage: the statistics of the pass
GCUpdateStats ==
  /\ gc.pc = "sweep"
  /\ (gc.layerFiles \ gc.referenced) \subseteq gc.seen
  /\ gc' = [IdleGC EXCEPT !.stats =
              [TotalCollections |-> gc.stats.TotalCollections + 1,
               TotalLayersRemoved |-> gc.stats.TotalLayersRemoved + gc.removed,
               LastCollectionSize |-> gc.totalSize],
              !.run = gc.run, !.stopCh = gc.stopCh, !.wg = gc.wg, !.stop = gc.stop,
              !.stoppedIn = gc.stoppedIn]
  /\ UNCHANGED <<layerCache, evicted, loaded, images, files, inodes, mdNames, mdInodes, mu, procs,
                 faults, budget>>

----------------------------------------------------------------------------
(* Specifications *)

Statuses == {200, 204, 401, 403, 500}

\* the auth argument of PullImage: nil, an AuthConfig without username or
\* password, an AuthConfig with both
Auths == {"nil", "empty", "basic"}
Answers == {"ok", "status", "copy"}

\* what the registry may serve to the request p is about to make
ServedManifests(p, sizeOffs) ==
  IF procs[p].pc = "manifest" THEN Manifests(procs[p].ref, sizeOffs) ELSE {}
ServedBlobs(p) ==
  IF procs[p].pc = "download" THEN Blobs(procs[p].manifest[procs[p].i].Digest) ELSE {}

\* the steps of a call in progress; the registry answers from the given sets
Step(p, statuses, oks, answers, sizeOffs, fails) ==
  \/ \E status \in statuses : Probe(p, status)
  \/ \E okStatus \in oks, m \in ServedManifests(p, sizeOffs) : GetManifest(p, okStatus, m)
  \/ LayerGet(p)
  \/ \E fail \in fails : ReuseLayer(p, fail)
  \/ \E answer \in answers, blob \in ServedBlobs(p) : DownloadLayer(p, answer, blob)
  \/ VerifyLayer(p)
  \/ CacheLayer(p)
  \/ InsertRecord(p)
  \/ SaveMarshal(p)
  \/ \E fail \in fails : SaveOpen(p, fail)
  \/ SaveWrite(p)
  \/ SaveRename(p)
  \/ CommitRecord(p)
  \/ \E fail \in fails : RemoveDir(p, fail)
  \/ Return(p)

\* calls made one at a time by one caller
NextSeq ==
  \/ \E r \in Refs, auth \in Auths : PullImage("p1", r, auth)
  \/ \E r \in Refs : RemoveImage("p1", r)
  \/ Step("p1", Statuses, BOOLEAN, Answers, {0, 1}, BOOLEAN)

SpecSeq == InitSeq /\ [][NextSeq]_vars

\* concurrent callers
Next ==
  \/ \E p \in Procs, r \in Refs : PullImage(p, r, "basic")
  \/ \E p \in Procs, r \in Refs : RemoveImage(p, r)
  \/ \E p \in Procs : Step(p, {200}, {TRUE}, {"ok"}, {0}, {FALSE})

Spec == Init /\ [][Next]_vars

\* two callers of the whole API of the service, no fault
NextAPI ==
  \/ \E p \in Procs, r \in Refs : PullImage(p, r, "basic")
  \/ \E p \in Procs, r \in Refs : RemoveImage(p, r)
  \/ \E p \in Procs, r \in Refs : AddImage(p, r)
  \/ \E p \in Procs, r \in Refs : ImageStatus(p, r)
  \/ \E p \in Procs : ListImages(p)
  \/ \E p \in Procs : ListImagesDone(p)
  \/ \E p \in Procs : Step(p, {200}, {TRUE}, {"ok"}, {0}, {FALSE})

SpecAPI == Init /\ [][NextAPI]_vars

\* a caller that writes the catalog, a caller that reads it and the
\* collector, no fault
NextReaders ==
  \/ \E r \in Refs : PullImage("p1", r, "basic")
  \/ \E r \in Refs : RemoveImage("p1", r)
  \/ \E r \in Refs : AddImage("p1", r)
  \/ Step("p1", {200}, {TRUE}, {"ok"}, {0}, {FALSE})
  \/ \E r \in Refs : ImageStatus("p2", r)
  \/ ListImages("p2")
  \/ ListImagesDone("p2")
  \/ Return("p2")
  \/ GCWalk
  \/ GCScan
  \/ \E path \in DOMAIN files \cup gc.layerFiles : GCSweep(path, FALSE)
  \/ GCUpdateStats

SpecReaders == Init /\ [][NextReaders]_vars

\* callers of AddImage only, no fault
NextAdd ==
  \/ \E p \in Procs, r \in Refs : AddImage(p, r)
  \/ \E p \in Procs : SaveMarshal(p)
  \/ \E p \in Procs : SaveOpen(p, FALSE)
  \/ \E p \in Procs : SaveWrite(p)
  \/ \E p \in Procs : SaveRename(p)
  \/ \E p \in Procs : Return(p)

SpecAdd == InitSeq /\ [][NextAdd]_vars

\* one caller and reference strings of every form, no fault
NextRefs ==
  \/ \E r \in RefStrings : PullImage("p1", r, "basic")
  \/ \E r \in RefStrings : RemoveImage("p1", r)
  \/ \E r \in RefStrings : ImageStatus("p1", r)
  \/ Step("p1", {200}, {TRUE}, {"ok"}, {0}, {FALSE})

SpecRefs == InitSeq /\ [][NextRefs]_vars

----------------------------------------------------------------------------
(* GarbageCollector.Start, Stop and run; ImageService.Close *)

\* Start: gc.wg.Add(1) and go gc.run(); NewImageService calls it once
GCStart ==
  /\ gc.run = "none"
  /\ gc' = [gc EXCEPT !.run = "running", !.wg = @ + 1]
  /\ UNCHANGED <<layerCache, evicted, loaded, images, files, inodes, mdNames, mdInodes, mu, procs,
                 faults, budget>>

\* run: the select takes the case of the ticker and collectGarbage begins
GCRunTick ==
  /\ gc.run = "running"
  /\ GCWalk

\* run: the select takes the case of the closed stopCh; run returns and the
\* deferred gc.wg.Done runs
GCRunExit ==
  /\ gc.run = "running"
  /\ gc.pc = "idle"
  /\ gc.stopCh = "closed"
  /\ gc' = [gc EXCEPT !.run = "exited", !.wg = @ - 1]
  /\ UNCHANGED <<layerCache, evicted, loaded, images, files, inodes, mdNames, mdInodes, mu, procs,
                 faults, budget>>

\* Stop, called by Close or directly, once, on a started collector:
\* close(gc.stopCh)
GCStop ==
  /\ gc.run = "running"
  /\ gc.stop = ""
  /\ gc' = [gc EXCEPT !.stopCh = "closed", !.stop = "waiting", !.stoppedIn = gc.pc]
  /\ UNCHANGED <<layerCache, evicted, loaded, images, files, inodes, mdNames, mdInodes, mu, procs,
                 faults, budget>>

\* Stop that does not wait for the goroutine
GCStopWait_NoWait ==
  /\ gc.stop = "waiting"
  /\ gc' = [gc EXCEPT !.stop = "returned"]
  /\ UNCHANGED <<layerCache, evicted, loaded, images, files, inodes, mdNames, mdInodes, mu, procs,
                 faults, budget>>

\* Stop: gc.wg.Wait() returns when the counter is zero, and Stop returns
GCStopWait ==
  /\ gc.stop = "waiting"
  /\ gc.wg = 0
  /\ gc' = [gc EXCEPT !.stop = "returned"]
  /\ UNCHANGED <<layerCache, evicted, loaded, images, files, inodes, mdNames, mdInodes, mu, procs,
                 faults, budget>>

\* the steps of the goroutine gc.run
GCTask ==
  \/ GCRunTick
  \/ GCScan
  \/ \E path \in DOMAIN files \cup gc.layerFiles : GCSweep(path, FALSE)
  \/ GCUpdateStats
  \/ GCRunExit

\* a service with its collector started, a caller of PullImage and
\* RemoveImage and a caller of Close, no fault
NextClose ==
  \/ GCStart
  \/ \E r \in Refs : PullImage("p1", r, "basic")
  \/ \E r \in Refs : RemoveImage("p1", r)
  \/ Step("p1", {200}, {TRUE}, {"ok"}, {0}, {FALSE})
  \/ GCTask
  \/ GCStop
  \/ GCStopWait

\* the scheduler runs every goroutine that can take a step: the caller
\* inside a call, the caller of Stop, and gc.run, whose select takes the
\* case of the closed stopCh when it is ready again and again
SpecClose ==
  /\ Init
  /\ [][NextClose]_vars
  /\ WF_vars(Step("p1", {200}, {TRUE}, {"ok"}, {0}, {FALSE}))
  /\ WF_vars(GCScan \/ (\E path \in DOMAIN files \cup gc.layerFiles : GCSweep(path, FALSE)) \/ GCUpdateStats)
  /\ SF_vars(GCRunExit)
  /\ WF_vars(GCStopWait)

\* one caller of PullImage and RemoveImage who may cancel the context of a
\* pull at any point, no fault
NextCancel ==
  \/ \E r \in Refs : PullImage("p1", r, "basic")
  \/ \E r \in Refs : RemoveImage("p1", r)
  \/ Cancel("p1")
  \/ Step("p1", {200}, {TRUE}, {"ok"}, {0}, {FALSE})

SpecCancel == InitSeq /\ [][NextCancel]_vars

\* the steps of a call of caller p that does not pull
StepNoPull(p) ==
  \/ SaveMarshal(p)
  \/ SaveOpen(p, FALSE)
  \/ SaveWrite(p)
  \/ SaveRename(p)
  \/ RemoveDir(p, FALSE)
  \/ ListImagesDone(p)
  \/ Return(p)

\* the steps of a pass of the collector once it has begun
GCPass ==
  \/ GCScan
  \/ \E path \in DOMAIN files \cup gc.layerFiles : GCSweep(path, FALSE)
  \/ GCUpdateStats

\* every operation that takes a lock: a caller of PullImage, RemoveImage and
\* AddImage, a caller of RemoveImage, AddImage, ImageStatus and ListImages,
\* and the passes of the collector; every I/O completes
NextLocks ==
  \/ \E r \in Refs : PullImage("p1", r, "basic")
  \/ \E r \in Refs : RemoveImage("p1", r)
  \/ \E r \in Refs : AddImage("p1", r)
  \/ Step("p1", {200}, {TRUE}, {"ok"}, {0}, {FALSE})
  \/ \E r \in Refs : RemoveImage("p2", r)
  \/ \E r \in Refs : AddImage("p2", r)
  \/ \E r \in Refs : ImageStatus("p2", r)
  \/ ListImages("p2")
  \/ StepNoPull("p2")
  \/ GCWalk
  \/ GCPass

\* the scheduler runs every goroutine that can step, and a goroutine that
\* waits for a lock that stays free gets it
SpecLocks ==
  /\ Init
  /\ [][NextLocks]_vars
  /\ WF_vars(Step("p1", {200}, {TRUE}, {"ok"}, {0}, {FALSE}))
  /\ WF_vars(StepNoPull("p2"))
  /\ WF_vars(GCPass)

\* one caller and the background collector
NextGC ==
  \/ \E r \in Refs : PullImage("p1", r, "basic")
  \/ \E r \in Refs : RemoveImage("p1", r)
  \/ Step("p1", {200}, {TRUE}, {"ok"}, {0}, BOOLEAN)
  \/ GCWalk
  \/ GCScan
  \/ \E path \in DOMAIN files \cup gc.layerFiles, fail \in BOOLEAN : GCSweep(path, fail)
  \/ GCUpdateStats

SpecGC == Init /\ [][NextGC]_vars

\* one caller and the collector, a pass of the collector never overlapping a
\* call
NextGCAlone ==
  \/ /\ gc.pc = "idle"
     /\ \/ \E r \in Refs : PullImage("p1", r, "basic")
        \/ \E r \in Refs : RemoveImage("p1", r)
        \/ Step("p1", {200}, {TRUE}, {"ok"}, {0}, BOOLEAN)
  \/ /\ procs["p1"].pc \in {"idle", "done"}
     /\ \/ GCWalk
        \/ GCScan
        \/ \E path \in DOMAIN files \cup gc.layerFiles, fail \in BOOLEAN : GCSweep(path, fail)
        \/ GCUpdateStats

SpecGCAlone == Init /\ [][NextGCAlone]_vars

\* one caller, and new services that load metadata.json
NextLoad ==
  \/ \E r \in Refs : PullImage("p1", r, "basic")
  \/ \E r \in Refs : RemoveImage("p1", r)
  \/ Step("p1", {200}, {TRUE}, {"ok"}, {0}, BOOLEAN)
  \/ LoadMetadata

SpecLoad == Init /\ [][NextLoad]_vars

----------------------------------------------------------------------------
(* Properties *)

NoCallInProgress == \A p \in Procs : procs[p].pc \in {"idle", "done"}

LayersOfRecord(rec) == {rec.Layers[k] : k \in DOMAIN rec.Layers}

\* byte length of the file at path (0 when there is none)
FileSize(path) == IF path \in DOMAIN files THEN inodes[files[path]].size ELSE 0

(* C1: after any sequence of completed PullImage and RemoveImage calls     *)
(* made one at a time, every layer path listed in every image record of    *)
(* the catalog names a file that exists on disk.                           *)
LayerPathsExist ==
  NoCallInProgress =>
    \A r \in DOMAIN images : \A l \in LayersOfRecord(images[r]) : l.Path \in DOMAIN files

\* the records that are not being removed by a RemoveImage in progress
Surviving(imgs, ps) ==
  DOMAIN imgs \ {ps[p].ref : p \in {q \in Procs : ps[q].op = "remove" /\ ps[q].pc = "rmdir"}}

(* C2: no step deletes a layer file while an image record of the catalog   *)
(* (other than the one being removed) still references the digest of that  *)
(* layer.                                                                  *)
NoReferencedLayerDeleted ==
  [][\A f \in DOMAIN files :
       (f.base = "layer.tar" /\ f \notin DOMAIN files')
         => \A r \in Surviving(images', procs') :
              \A l \in LayersOfRecord(images'[r]) : l.Digest # inodes[files[f]].dig]_vars

RemoveSucceeded(p) ==
  procs[p].pc = "done" /\ procs[p].op = "remove" /\ procs[p].result.ok

DigestsOfOthers == UNION {{l.Digest : l \in LayersOfRecord(images[r])} : r \in DOMAIN images}

(* C3: after a successful RemoveImage(r), every layer of r whose digest no *)
(* other record lists has had its file deleted, and every layer of r whose *)
(* digest another surviving record lists still has its file on disk.       *)
RemoveKeepsSharedLayers ==
  \A p \in Procs :
    RemoveSucceeded(p) =>
      \A k \in DOMAIN procs[p].layers :
        LET l == procs[p].layers[k]
        IN IF l.Digest \in DigestsOfOthers
           THEN l.Path \in DOMAIN files
           ELSE l.Path \notin DOMAIN files

\* a PullImage that went to the registry and returned an image ID
PullSucceeded(p) ==
  procs[p].pc = "done" /\ procs[p].op = "pull" /\ procs[p].result.ok /\ procs[p].nreq > 0

SizesOf(layers) == [k \in DOMAIN layers |-> layers[k].Size]

(* C4: after a successful PullImage(r), the record stored for r has layers *)
(* equal to the list of layer records built during the pull, repo_tags =   *)
(* [r], and size equal to the sum of the sizes of those layers.            *)
PullStoresRecord ==
  \A p \in Procs :
    PullSucceeded(p) =>
      /\ procs[p].ref \in DOMAIN images
      /\ images[procs[p].ref].Layers = procs[p].layers
      /\ images[procs[p].ref].RepoTags = <<procs[p].ref>>
      /\ images[procs[p].ref].Size = SeqSum(SizesOf(procs[p].layers))

(* C5: for every image record in the catalog, size equals the sum of the   *)
(* on-disk byte sizes of the layer files it references.                    *)
SizeIsSumOfFiles ==
  NoCallInProgress =>
    \A r \in DOMAIN images :
      images[r].Size = SeqSum([k \in DOMAIN images[r].Layers |-> FileSize(images[r].Layers[k].Path)])

(* C6: PullImage on a reference that is already in the catalog returns the *)
(* stored image ID without a registry request and leaves the catalog, the  *)
(* layer cache and the files unchanged.                                    *)
PullIsIdempotent ==
  [][\A p \in Procs :
       (procs[p].pc = "idle" /\ procs'[p].op = "pull" /\ procs'[p].ref \in DOMAIN images)
         => /\ procs'[p].pc = "done"
            /\ procs'[p].result = Ok(images[procs'[p].ref].ID)
            /\ procs'[p].result.id = ImageID(procs'[p].ref)
            /\ procs'[p].nreq = 0
            /\ UNCHANGED <<images, layerCache, files, inodes, mdNames, mdInodes>>]_vars

\* a pull of a reference already in the catalog has returned
IdempotentPullReturned ==
  \E p \in Procs :
    /\ procs[p].pc = "done" /\ procs[p].op = "pull" /\ procs[p].nreq = 0
    /\ procs[p].result = Ok(ImageID(procs[p].ref))
    /\ procs[p].ref \in DOMAIN images

\* the step of p at which the digest of the downloaded bytes is compared
MismatchDetected(p) ==
  /\ procs[p].pc = "verify"
  /\ procs'[p].pc # "verify"
  /\ procs[p].blob.dig # procs[p].manifest[procs[p].i].Digest

(* C7: when the downloaded bytes hash to another digest than the manifest  *)
(* gives, the pull fails with a digest-mismatch error, layer.tar.tmp is    *)
(* removed, no layer.tar is created at the final name, the layer is not    *)
(* added to the cache and no record for the reference enters the catalog.  *)
MismatchRejectsLayer ==
  [][\A p \in Procs :
       MismatchDetected(p)
         => LET final == LayerPath(procs[p].ref, procs[p].i)
            IN /\ procs'[p].pc = "done"
               /\ procs'[p].result = Err("layer digest mismatch")
               /\ TempPath(procs[p].ref, procs[p].i) \notin DOMAIN files'
               /\ final \in DOMAIN files' => (final \in DOMAIN files /\ files'[final] = files[final]
                                              /\ inodes'[files'[final]] = inodes[files[final]])
               /\ layerCache' = layerCache
               /\ images' = images
               /\ procs[p].ref \notin DOMAIN images']_vars

\* a pull has failed on a blob whose bytes hash to another digest
MismatchReported ==
  \E p \in Procs :
    /\ procs[p].pc = "done" /\ procs[p].result = Err("layer digest mismatch")
    /\ procs[p].ref \notin DOMAIN images
    /\ \A f \in DOMAIN files : ~(f.dir = procs[p].ref /\ f.base = "layer.tar.tmp")

(* C8: at every moment metadata.json is either absent or holds the         *)
(* complete serialization of one catalog snapshot.                         *)
MetadataNeverPartial ==
  MetaFile \in DOMAIN mdNames => mdInodes[mdNames[MetaFile]].full

(* C9: after any sequence of Add, Get and Remove calls, totalSize equals   *)
(* the sum of the sizes of the entries in the cache.                       *)
TotalMatchesEntries == layerCache.totalSize = EntriesSize(layerCache)

(* C10: for a cache constructed with maxSize > 0, totalSize is at most     *)
(* maxSize after every Add, for any sequence of Add, Get and Remove.       *)
TotalWithinMax == layerCache.maxSize > 0 => layerCache.totalSize <= layerCache.maxSize

\* a bounded cache that Adds have filled up to its limit
BoundedCacheFull ==
  /\ layerCache.maxSize > 0
  /\ layerCache.totalSize = layerCache.maxSize
  /\ Cardinality(DOMAIN layerCache.layers) >= 2

----------------------------------------------------------------------------
(* Properties of the cache operations called directly *)

\* the position of d in the list s (0 when absent)
Pos(s, d) == IF \E i \in DOMAIN s : s[i] = d THEN CHOOSE i \in DOMAIN s : s[i] = d ELSE 0

\* the step is the call layerCache.Add of an entry of digest d and size n
IsAdd(d, n) ==
  /\ layerCache' = Add(layerCache, d, LayerMetadata(d, NoPath, n)).c
  /\ evicted' = Add(layerCache, d, LayerMetadata(d, NoPath, n)).evicted

(* C11: an Add that needs room evicts entries in ascending order of their  *)
(* last-used time (refreshed by Get hits and Adds) and stops as soon as    *)
(* the new entry fits: no entry is evicted while another positive-size     *)
(* entry with an older last-used time stays in the cache.                  *)
EvictsOldestFirst ==
  [][\A d \in Digests, n \in 0..(CacheLimit + 1) :
       IsAdd(d, n) =>
         /\ \A k \in DOMAIN evicted' : \A x \in DOMAIN layerCache.layers :
              (/\ layerCache.layers[x].Size > 0
               /\ Pos(layerCache.lastUsed, x) < Pos(layerCache.lastUsed, evicted'[k]))
              => \E j \in 1..(k - 1) : evicted'[j] = x
         /\ evicted' # <<>> =>
              layerCache'.totalSize + layerCache.layers[evicted'[Len(evicted')]].Size
                > layerCache.maxSize]_vars

\* the last Add evicted an entry and left a younger one in the cache
OldestEvictedYoungerKept ==
  /\ evicted # <<>>
  /\ layerCache.lastUsed # <<>>
  /\ \E x \in DOMAIN layerCache.layers :
       /\ x # layerCache.lastUsed[Len(layerCache.lastUsed)]
       /\ layerCache.layers[x].Size > 0
       /\ \A k \in DOMAIN evicted : evicted[k] # x

\* Add refuses the entry: empty digest, negative size, or a size above a
\* positive maxSize
Refused(c, d, n) == d = "" \/ n < 0 \/ (c.maxSize > 0 /\ n > c.maxSize)

(* C12: an Add that is refused (empty digest, negative size, or a size     *)
(* above a positive maxSize) inserts and evicts nothing and leaves layers, *)
(* lastUsed and totalSize unchanged, so totalSize is never negative; an    *)
(* Add whose size equals maxSize is accepted.                              *)
RefusedAddKeepsTotal ==
  /\ [][\A d \in Digests \cup {""}, n \in (0 - 1)..(CacheLimit + 1) :
          IsAdd(d, n) =>
            /\ Refused(layerCache, d, n) => layerCache' = layerCache /\ evicted' = <<>>
            /\ (d # "" /\ n = layerCache.maxSize) =>
                 d \in DOMAIN layerCache'.layers /\ layerCache'.layers[d].Size = n]_vars
  /\ [](layerCache.totalSize >= 0)

\* the part of C12 about the refused and the accepted Add alone
RefusedAddChangesNothing ==
  [][\A d \in Digests \cup {""}, n \in (0 - 1)..(CacheLimit + 1) :
       IsAdd(d, n) =>
         /\ Refused(layerCache, d, n) => layerCache' = layerCache /\ evicted' = <<>>
         /\ (d # "" /\ n = layerCache.maxSize) =>
              d \in DOMAIN layerCache'.layers /\ layerCache'.layers[d].Size = n]_vars

(* C13: a cache constructed with maxSize = 0 never evicts: every Add with  *)
(* a non-empty digest and a non-negative size is accepted and all the      *)
(* entries added before stay in the cache.                                 *)
UnlimitedCacheKeepsAll ==
  [][\A d \in Digests, n \in 0..(CacheLimit + 1) :
       (IsAdd(d, n) /\ layerCache.maxSize = 0) =>
         /\ evicted' = <<>>
         /\ d \in DOMAIN layerCache'.layers
         /\ layerCache'.layers[d].Size = n
         /\ \A x \in DOMAIN layerCache.layers \ {d} :
              x \in DOMAIN layerCache'.layers /\ layerCache'.layers[x] = layerCache.layers[x]]_vars

\* an unlimited cache that holds more than the limit of the bounded one
UnlimitedCacheAboveLimit ==
  /\ layerCache.maxSize = 0
  /\ Cardinality(DOMAIN layerCache.layers) >= 2
  /\ EntriesSize(layerCache) > CacheLimit

(* C14: an entry of size 0 is never removed by eviction.                   *)
EmptyEntryNeverEvicted ==
  [][\A d \in Digests, n \in 0..(CacheLimit + 1) :
       IsAdd(d, n) =>
         /\ \A k \in DOMAIN evicted' : layerCache.layers[evicted'[k]].Size > 0
         /\ \A x \in DOMAIN layerCache.layers \ {d} :
              layerCache.layers[x].Size = 0 =>
                x \in DOMAIN layerCache'.layers /\ layerCache'.layers[x] = layerCache.layers[x]]_vars

\* the last Add evicted entries while an older entry of size 0 stayed
EmptyEntrySurvivedEviction ==
  /\ evicted # <<>>
  /\ layerCache.lastUsed # <<>>
  /\ layerCache.layers[Head(layerCache.lastUsed)].Size = 0
  /\ Len(layerCache.lastUsed) >= 2

----------------------------------------------------------------------------
(* Properties of the garbage collector *)

\* path is the path of a layer record of the catalog
IsLayerRecordPath(path) ==
  \E r \in DOMAIN images : \E k \in DOMAIN images[r].Layers : images[r].Layers[k].Path = path

(* C15: a pass of the collector that no operation overlaps removes exactly *)
(* the layer.tar files whose path is not the path of any layer record, and *)
(* leaves every referenced file (and every other file) in place.           *)
GCRemovesExactlyOrphans ==
  [][gc.pc = "sweep" =>
       /\ \A f \in DOMAIN files \ DOMAIN files' : f.base = "layer.tar" /\ ~IsLayerRecordPath(f)
       /\ \A f \in DOMAIN files' : f \in DOMAIN files /\ files'[f] = files[f]
       /\ images' = images
       /\ (gc'.pc = "idle" /\ gc.failed = {}) =>
            \A f \in DOMAIN files : f.base = "layer.tar" => IsLayerRecordPath(f)]_vars

\* a pass has removed an orphan and is over, a referenced layer file is in place
OrphanRemovedReferencedKept ==
  /\ gc.pc = "sweep"
  /\ (gc.layerFiles \ gc.referenced) \subseteq gc.seen
  /\ gc.unlinked # {}
  /\ gc.failed = {}
  /\ \E f \in gc.layerFiles \cap DOMAIN files : IsLayerRecordPath(f)

\* the sizes of the files the pass has removed
RemovedSize(unlinked) == SumSet(unlinked, [u \in unlinked |-> u[2]])

(* C16: after each pass of the collector LastCollectionSize is the sum of  *)
(* the sizes of the files the pass actually removed, TotalLayersRemoved    *)
(* has grown by their number and TotalCollections by one, also when the    *)
(* unlink of some orphan fails.                                            *)
GCStatsCountRemovedFiles ==
  [][(gc.pc = "sweep" /\ gc'.pc = "idle") =>
       /\ gc'.stats.LastCollectionSize = RemovedSize(gc.unlinked)
       /\ gc'.stats.TotalLayersRemoved = gc.stats.TotalLayersRemoved + Cardinality(gc.unlinked)
       /\ gc'.stats.TotalCollections = gc.stats.TotalCollections + 1]_vars

\* the statistics of the passes in which every os.Remove succeeded
GCStatsWithoutFailure ==
  [][(gc.pc = "sweep" /\ gc'.pc = "idle" /\ gc.failed = {}) =>
       /\ gc'.stats.LastCollectionSize = RemovedSize(gc.unlinked)
       /\ gc'.stats.TotalLayersRemoved = gc.stats.TotalLayersRemoved + Cardinality(gc.unlinked)
       /\ gc'.stats.TotalCollections = gc.stats.TotalCollections + 1]_vars

----------------------------------------------------------------------------
(* Properties of the registry probe *)

\* the step is the probe of caller p
ProbeStep(p) == procs[p].pc = "probe" /\ procs'[p].pc # "probe"

\* the call of the caller q has returned the error e
Failed(q, e) == q.pc = "done" /\ q.result = Err(e)

\* a failed probe ends the pull after one request and without a record
ProbeFailureStopsPull(p) ==
  procs'[p].pc = "done" =>
    /\ procs'[p].nreq = 1
    /\ images' = images /\ files' = files /\ layerCache' = layerCache
    /\ procs'[p].ref \notin DOMAIN images'

(* C17: the probe at the start of a pull maps the response: 200 lets the   *)
(* pull continue; 401 when no credentials were supplied fails it with the  *)
(* authentication-required error; 403 fails it with the                    *)
(* authentication-failed error; any other status fails it as registry      *)
(* unavailable; a failing probe is followed by no manifest or blob request *)
(* and creates no record.                                                  *)
ProbeMapsStatus ==
  [][\A p \in Procs : ProbeStep(p) =>
       LET q == procs'[p] IN
       /\ q.status = 200 => q.pc = "manifest"
       /\ (q.status = 401 /\ procs[p].auth \in {"nil", "empty"}) =>
            Failed(q, "authentication required")
       /\ q.status = 403 => Failed(q, "authentication failed")
       /\ q.status \notin {200, 401, 403} => Failed(q, "registry check failed")
       /\ ProbeFailureStopsPull(p)]_vars

\* the mapping of C17 where "no credentials" is the nil auth argument alone
ProbeMapsStatusNilAuth ==
  [][\A p \in Procs : ProbeStep(p) =>
       LET q == procs'[p] IN
       /\ q.status = 200 => q.pc = "manifest"
       /\ (q.status = 401 /\ procs[p].auth = "nil") => Failed(q, "authentication required")
       /\ q.status = 403 => Failed(q, "authentication failed")
       /\ q.status \notin {200, 401, 403} => Failed(q, "registry check failed")
       /\ ProbeFailureStopsPull(p)]_vars

(* C18: when credentials are supplied and the registry answers the probe   *)
(* with 401, the pull fails with the authentication-failed error.          *)
ProbeRejectsBadCredentials ==
  [][\A p \in Procs : (ProbeStep(p) /\ procs[p].auth = "basic" /\ procs'[p].status = 401) =>
       Failed(procs'[p], "authentication failed")]_vars

----------------------------------------------------------------------------
(* Properties of RemoveImage and of the metadata file *)

(* C19: RemoveImage of a reference that is not in the catalog returns the  *)
(* image-not-found error and leaves the catalog, the layer cache, the      *)
(* files on disk and metadata.json unchanged.                              *)
RemoveOfUnknownChangesNothing ==
  [][\A p \in Procs :
       (/\ procs[p].pc = "idle"
        /\ procs'[p].op = "remove"
        /\ procs'[p].ref \notin DOMAIN images) =>
         /\ Failed(procs'[p], "image not found")
         /\ images' = images
         /\ layerCache' = layerCache
         /\ files' = files /\ inodes' = inodes
         /\ mdNames' = mdNames /\ mdInodes' = mdInodes]_vars

\* RemoveImage of an unknown reference has returned while the store holds
\* a record, layer files and metadata.json
UnknownRemoveReturned ==
  \E p \in Procs :
    /\ procs[p].op = "remove"
    /\ Failed(procs[p], "image not found")
    /\ procs[p].ref \notin DOMAIN images
    /\ images # <<>>
    /\ files # <<>>
    /\ MetaFile \in DOMAIN mdNames

(* C20: saving a catalog with saveMetadata and loading it with             *)
(* loadMetadata into a fresh service yields a catalog equal to the saved   *)
(* one: the same references, each with the same id, tags, digests, size    *)
(* and layer list.                                                         *)
LoadOfSavedCatalogIsEqual ==
  [][(/\ loaded' # loaded
      /\ MetaFile \in DOMAIN mdNames
      /\ mdInodes[mdNames[MetaFile]] = Serialized(images)) =>
       /\ DOMAIN loaded' = DOMAIN images
       /\ \A r \in DOMAIN images :
            /\ loaded'[r].ID = images[r].ID
            /\ loaded'[r].RepoTags = images[r].RepoTags
            /\ loaded'[r].RepoDigests = images[r].RepoDigests
            /\ loaded'[r].Size = images[r].Size
            /\ loaded'[r].Layers = images[r].Layers]_vars

\* a fresh service has loaded the saved catalog, which has a record with
\* layers
SavedCatalogLoaded ==
  /\ MetaFile \in DOMAIN mdNames
  /\ mdInodes[mdNames[MetaFile]] = Serialized(images)
  /\ loaded = images
  /\ \E r \in DOMAIN loaded : loaded[r].Layers # <<>>

----------------------------------------------------------------------------
(* Properties of concurrent calls *)

\* callers p and q have both returned from PullImage of one reference, and
\* the registry served each of them the blobs of the manifest
BothPulled(p, q) ==
  /\ p # q
  /\ procs[p].pc = "done" /\ procs[p].op = "pull"
  /\ procs[q].pc = "done" /\ procs[q].op = "pull"
  /\ procs[p].ref = procs[q].ref
  /\ procs[p].result.err # "layer digest mismatch"
  /\ procs[q].result.err # "layer digest mismatch"

\* the layer files of the record of r hold the blobs of their digests
LayerFilesVerified(r) ==
  r \in DOMAIN images =>
    \A k \in DOMAIN images[r].Layers :
      /\ images[r].Layers[k].Path \in DOMAIN files
      /\ inodes[files[images[r].Layers[k].Path]].dig = images[r].Layers[k].Digest

\* both calls have returned the same image ID
SamePullsReturnSameID ==
  \A p, q \in Procs : BothPulled(p, q) =>
    /\ procs[p].result.ok /\ procs[q].result.ok
    /\ procs[p].result.id = procs[q].result.id

\* a write of a record over an existing one by a pull changes nothing
PullOverwriteIsNoOp ==
  [][\A p \in Procs : \A r \in DOMAIN images :
       (procs[p].op = "pull" /\ procs[p].ref = r /\ r \in DOMAIN images') =>
         images'[r] = images[r]]_vars

(* C21: two concurrent PullImage calls for the same reference do not       *)
(* corrupt state: under every interleaving both return the same image ID,  *)
(* the record each computes is identical, so that the later catalog write  *)
(* is a no-op overwrite, and every layer file of the final record holds    *)
(* exactly the verified blob content.                                      *)
ConcurrentSamePullsAgree ==
  /\ [](SamePullsReturnSameID
        /\ \A p, q \in Procs : BothPulled(p, q) => LayerFilesVerified(procs[p].ref))
  /\ PullOverwriteIsNoOp

\* a step in which caller p starts a read of the catalog: the lookup of
\* ImageStatus, the pre-check of PullImage, the loop of ListImages
ReadsCatalog(p) ==
  /\ procs[p].pc = "idle"
  /\ procs'[p].pc # "idle"
  /\ procs'[p].op \in {"status", "pull", "list"}

\* the step in which the collector reads the records for its references
GCReadsCatalog == gc.pc = "scan" /\ gc'.pc = "sweep"

\* the loop of ListImages over the catalog has started and not ended
ListingInProgress(p) == procs[p].pc = "listing"

(* C22: every read of the catalog by ImageStatus, ListImages, the pre-check
   of PullImage and the reference scan of the collector is made with the
   catalog lock held, so it starts while no other caller holds the lock
   exclusively and no write of the catalog happens before it has ended *)
CatalogReadsHoldLock ==
  [][/\ \A p \in Procs : ReadsCatalog(p) => mu = ""
     /\ GCReadsCatalog => mu = ""
     /\ images' # images => \A p \in Procs : ~ListingInProgress(p)]_vars

\* caller p is inside saveMetadata
InSaveMetadata(p) == procs[p].pc \in {"savemarshal", "saveopen", "savewrite", "saverename"}

\* every caller inside saveMetadata holds s.mu exclusively
SaveHoldsLock == \A p \in Procs : InSaveMetadata(p) => mu = p

\* a pull that went to the registry or a remove returns success in this step
ReturnsSuccess(p) ==
  /\ procs[p].pc # "done"
  /\ procs'[p].pc = "done"
  /\ procs'[p].result.ok
  /\ \/ procs'[p].op = "remove"
     \/ procs'[p].op = "pull" /\ procs'[p].nreq > 0

(* C23: saveMetadata is called at the end of every successful pull and
   remove, and every call of saveMetadata, whether made by pullImage,
   downloadImage, removeImage or AddImage, runs while its caller holds the
   catalog lock exclusively *)
SaveMetadataUnderLock ==
  /\ [][\A p \in Procs : ReturnsSuccess(p) => procs[p].pc = "saverename"]_vars
  /\ []SaveHoldsLock

\* caller p has returned from AddImage
AddReturned(p) == procs[p].pc = "done" /\ procs[p].op = "add"

\* the references of the records metadata.json holds
SavedRefs == DOMAIN loadMetadata(mdNames, mdInodes, <<>>).images

(* C24: concurrent calls of AddImage all succeed under every interleaving:
   when a call has returned, it returned nil and its reference is in the
   catalog and in metadata.json, and no later call takes a reference out of
   either, so that after N calls for distinct references both hold all N *)
ConcurrentAddsAllStored ==
  /\ [](\A p \in Procs : AddReturned(p) =>
          /\ procs[p].result.ok
          /\ procs[p].ref \in DOMAIN images
          /\ procs[p].ref \in SavedRefs)
  /\ [][DOMAIN images \subseteq DOMAIN images' /\ SavedRefs \subseteq SavedRefs']_vars

\* both callers have returned from AddImage of distinct references, and the
\* catalog and metadata.json hold both
TwoAddsStored ==
  /\ \A p \in Procs : AddReturned(p)
  /\ procs["p1"].ref # procs["p2"].ref
  /\ DOMAIN images = Refs
  /\ SavedRefs = Refs

----------------------------------------------------------------------------
(* Properties of the pull pipeline *)

(* C25: when saveMetadata fails at the end of a pull, PullImage returns the
   metadata error and the record of the reference is no longer in the
   catalog *)
FailedSaveRemovesRecord ==
  \A p \in Procs :
    (procs[p].op = "pull" /\ Failed(procs[p], "failed to save metadata")) =>
      procs[p].ref \notin DOMAIN images

\* the errors with which the loop over the layers of downloadImage ends
LayerErrors ==
  {"failed to download layer", "failed to save layer", "layer digest mismatch",
   "failed to move verified layer", "failed to get layer size"}

\* the pull of caller p has returned because a layer failed
LayerFailed(p) ==
  procs[p].pc = "done" /\ procs[p].op = "pull" /\ procs[p].result.err \in LayerErrors

\* the pull pr has installed or reused every layer of its manifest
AllLayersDone(pr) ==
  /\ pr.manifest # <<>>
  /\ Len(pr.layers) = Len(pr.manifest)
  /\ \A k \in DOMAIN pr.layers : pr.layers[k].Digest = pr.manifest[k].Digest

\* the layers the pull of p had installed or reused are on disk and cached
EarlierLayersKept(p) ==
  \A k \in DOMAIN procs[p].layers :
    /\ procs[p].layers[k].Path \in DOMAIN files
    /\ procs[p].layers[k].Digest \in DOMAIN layerCache.layers

(* C26: the record of a reference enters the catalog only after every layer
   of the manifest has been installed and verified or reused; when a layer
   fails the pull returns an error, the catalog has no record of the
   reference, and the layers the pull installed before are still on disk and
   in the cache *)
RecordOnlyAfterAllLayers ==
  /\ [][\A r \in Refs : (r \notin DOMAIN images /\ r \in DOMAIN images') =>
           \E p \in Procs : /\ procs[p].op = "pull"
                             /\ procs[p].ref = r
                             /\ AllLayersDone(procs[p])]_vars
  /\ [](\A p \in Procs : LayerFailed(p) =>
          /\ ~procs[p].result.ok
          /\ procs[p].ref \notin DOMAIN images
          /\ EarlierLayersKept(p))

\* a pull has failed at its second layer after it installed the first
SecondLayerFailed ==
  \E p \in Procs : LayerFailed(p) /\ Len(procs[p].layers) = 1 /\ procs[p].nreq = 4

\* "sha256:" and the hex form of the SHA-256 digest of the string r
HashOfReference(r) == [prefix |-> "sha256:", hexOfHex |-> [alg |-> "sha256", of |-> r]]

\* the pull of caller p has returned an image ID
PullReturnedID(p) == procs[p].pc = "done" /\ procs[p].op = "pull" /\ procs[p].result.ok

(* C27: the image ID PullImage returns is a function of the reference
   string alone, the hash of the reference, whatever manifest and blobs the
   registry served, and the IDs of distinct references are distinct *)
PulledIDIsHashOfReference ==
  /\ \A p \in Procs : PullReturnedID(p) => procs[p].result.id = HashOfReference(procs[p].ref)
  /\ \A r \in DOMAIN images : images[r].ID = HashOfReference(r)
  /\ \A r, s \in DOMAIN images : r # s => images[r].ID # images[s].ID

\* a pull served a manifest with untrue sizes has returned its ID while the
\* catalog holds the record of another reference
PulledWithOtherManifest ==
  \E p \in Procs :
    /\ PullReturnedID(p)
    /\ procs[p].nreq > 0
    /\ procs[p].manifest \notin Manifests(procs[p].ref, {0})
    /\ \E s \in DOMAIN images : s # procs[p].ref /\ images[s].ID # procs[p].result.id

----------------------------------------------------------------------------
(* Properties of references *)

\* the canonical form of a parsed reference: reference.TagNameOnly gives the
\* tag latest to a name that carries neither tag nor digest
Canonical(named) ==
  [named EXCEPT !.tag = IF named.tag = "" /\ named.digest = "" THEN "latest" ELSE named.tag]

\* the strings r and s are references with one canonical form
SameReference(r, s) ==
  /\ ParseNormalizedNamed(r).ok
  /\ ParseNormalizedNamed(s).ok
  /\ Canonical(ParseNormalizedNamed(r)) = Canonical(ParseNormalizedNamed(s))

\* caller p makes a call op with the reference s in this step
Calls(p, op, s) ==
  procs[p].pc = "idle" /\ procs'[p].pc # "idle" /\ procs'[p].op = op /\ procs'[p].ref = s

(* C28: two reference strings with one canonical form denote one catalog
   record: when the catalog holds a record pulled under r, PullImage of s
   returns the ID of that record without a registry request, ImageStatus of
   s returns that record and RemoveImage of s finds it *)
SameReferenceSameRecord ==
  [][\A p \in Procs : \A r \in DOMAIN images : \A s \in RefStrings :
       SameReference(r, s) =>
         /\ Calls(p, "pull", s) => procs'[p] = Finish(procs'[p], Ok(images[r].ID)) /\ procs'[p].nreq = 0
         /\ Calls(p, "status", s) => procs'[p].result = Ok(images[r].ID)
         /\ Calls(p, "remove", s) => procs'[p].result.err # "image not found"]_vars

\* what the manifest of a reference is asked for: its digest, else its
\* tag, else latest
ManifestReference(named) ==
  IF named.digest # "" THEN named.digest
  ELSE IF named.tag # "" THEN named.tag
  ELSE "latest"

(* C29: the manifest request of a pull is made to the registry and the
   repository of the reference, for the digest the reference carries, else
   for its tag, and for latest only when it carries neither *)
ManifestRequestFollowsReference ==
  \A p \in Procs :
    procs[p].url # NoURL =>
      LET named == ParseNormalizedNamed(procs[p].ref)
      IN procs[p].url = ManifestURL(named.domain, named.path, ManifestReference(named))

----------------------------------------------------------------------------
(* Properties of the life cycle of the collector *)

\* a pass of the collector begins in this step
PassStarts == gc.pc = "idle" /\ gc'.pc # "idle"

(* C30: Stop (and Close, which calls it) closes the stop channel and returns
   only after the goroutine of the collector has exited; Stop always
   returns, also when it is called during a pass; no pass starts after Stop
   has returned *)
StopJoinsCollector ==
  /\ [](gc.stop # "" => gc.stopCh = "closed")
  /\ [](gc.stop = "returned" => gc.run = "exited")
  /\ (gc.stop = "waiting") ~> (gc.stop = "returned")
  /\ [][gc.stop = "returned" => ~PassStarts]_vars

\* Stop was called during a pass and has returned after the pass removed a
\* file and ended
StoppedDuringPass ==
  /\ gc.stop = "returned"
  /\ gc.run = "exited"
  /\ gc.stoppedIn = "sweep"
  /\ gc.stats.TotalLayersRemoved > 0

----------------------------------------------------------------------------
(* Properties of layer reuse *)

\* the file at path holds the bytes of the blob with digest d
HoldsBlob(path, d) == path \in DOMAIN files /\ inodes[files[path]].dig = d

\* caller p takes the reuse path for its current layer in this step and
\* reuseLayer returns nil
ReuseStep(p) ==
  /\ procs[p].pc = "reuse"
  /\ procs'[p].pc \in {"layer", "insert"}

(* C31: after a successful PullImage, also one that retries a pull of the
   same reference that failed half way, every layer file of the image holds
   content whose digest is the digest the manifest gives for that layer, and
   reuse leaves the content of its source file as it was *)
PulledLayersHoldManifestBlobs ==
  /\ [](\A p \in Procs : (PullReturnedID(p) /\ procs[p].nreq > 0) =>
          \A k \in DOMAIN procs[p].manifest :
            /\ HoldsBlob(LayerPath(procs[p].ref, k), procs[p].manifest[k].Digest)
            /\ k \in DOMAIN procs[p].layers
            /\ HoldsBlob(procs[p].layers[k].Path, procs[p].manifest[k].Digest))
  /\ [][\A p \in Procs : ReuseStep(p) =>
           /\ procs[p].md.Path \in DOMAIN files'
           /\ inodes'[files'[procs[p].md.Path]] = inodes[files[procs[p].md.Path]]]_vars

----------------------------------------------------------------------------
(* Properties of a pass of the collector that runs beside the callers *)

\* the pull of caller p is in flight: it has not yet inserted its record
PullInFlight(p) ==
  /\ procs[p].op = "pull"
  /\ procs[p].pc \in {"layer", "reuse", "download", "verify", "stat", "insert"}

\* the paths of the layers the call of p has installed or reused so far
InstalledPaths(p) == {procs[p].layers[k].Path : k \in DOMAIN procs[p].layers}

(* C32: whenever a pass of the collector runs beside a PullImage, the pass
   unlinks no layer.tar that the pull has installed and not yet recorded, so
   when the pull returns success every layer file of its record exists *)
GCKeepsLayersOfPullInFlight ==
  /\ [][\A p \in Procs : PullInFlight(p) =>
           \A path \in InstalledPaths(p) :
             (gc.pc = "sweep" /\ path \in DOMAIN files) => path \in DOMAIN files']_vars
  /\ [](\A p \in Procs : (PullReturnedID(p) /\ procs[p].nreq > 0) =>
          InstalledPaths(p) \subseteq DOMAIN files)

\* path is a layer.tar inside the directory of an image of the catalog
InCatalogImageDir(path) == path.base = "layer.tar" /\ path.dir \in DOMAIN images

(* C33: a pass of the collector deletes no layer.tar that lies inside the
   directory of an image present in the catalog, also not the hard link or
   copy that a pull made there when it reused a layer cached from another
   image *)
GCKeepsFilesOfCatalogImages ==
  [][gc.pc = "sweep" =>
       \A path \in DOMAIN files : InCatalogImageDir(path) => path \in DOMAIN files']_vars

----------------------------------------------------------------------------
(* Properties of metadata.json under concurrent calls *)

\* every call made so far has ended and its result has not yet been taken
\* by its caller, so that every result is still to be seen
AllCallsReturned ==
  /\ NoCallInProgress
  /\ Cardinality({p \in Procs : procs[p].pc = "done"}) = MaxCalls - budget

\* no call that has ended reported a failure of saveMetadata
EverySaveSucceeded == \A p \in Procs : ~Failed(procs[p], "failed to save metadata")

(* C34: whenever no operation is in progress and every save reported
   success, the catalog stored in metadata.json equals the in-memory
   catalog, whatever the interleaving of the calls of PullImage, RemoveImage
   and AddImage that ran before *)
SavedCatalogEqualsCatalog ==
  (AllCallsReturned /\ EverySaveSucceeded) =>
    loadMetadata(mdNames, mdInodes, <<>>) = [images |-> images, err |-> ""]

----------------------------------------------------------------------------
(* Properties of RemoveImage *)

\* the RemoveImage of caller p has returned an error after it found the
\* record; procs[p].layers are the Layers of the record as the call read it
RemoveFailed(p) ==
  /\ procs[p].pc = "done"
  /\ procs[p].op = "remove"
  /\ procs[p].result.err \in {"failed to remove image directory", "failed to save metadata"}

(* C35: when RemoveImage returns an error because the removal of the image
   directory or the write of the metadata failed, the record of the image
   is still in the catalog, and the layer files and the cache entries of
   its layers are still there *)
FailedRemoveChangesNothing ==
  \A p \in Procs :
    RemoveFailed(p) =>
      /\ procs[p].ref \in DOMAIN images
      /\ \A k \in DOMAIN procs[p].layers :
           /\ procs[p].layers[k].Path \in DOMAIN files
           /\ procs[p].layers[k].Digest \in DOMAIN layerCache.layers

----------------------------------------------------------------------------
(* Properties of the reuse path of a pull *)

\* caller p leaves the reuse path for its layer in this step, the cached
\* file being there
ReuseAttempt(p) ==
  /\ procs[p].pc = "reuse"
  /\ procs'[p].pc # "reuse"
  /\ procs[p].md.Path \in DOMAIN files

\* control flow of the reuse path alone: a reuse makes no request and leaves
\* a file at the destination, a failed reuse drops the cache entry and goes
\* on to the download
ReuseControlFlow ==
  [][\A p \in Procs : ReuseAttempt(p) =>
       IF procs'[p].pc = "download"
       THEN procs[p].md.Digest \notin DOMAIN layerCache'.layers
       ELSE /\ procs'[p].nreq = procs[p].nreq
            /\ LayerPath(procs[p].ref, procs[p].i) \in DOMAIN files']_vars

(* C36: during a pull, a layer whose digest is in the cache and whose cached
   file exists is put at the layer path of the image as a hard link or a
   copy of the cached file, with no blob request; when reuse fails, the
   cache entry of the digest is removed and the layer is downloaded *)
CachedLayerIsReused ==
  [][\A p \in Procs : ReuseAttempt(p) =>
       IF procs'[p].pc = "download"
       THEN procs[p].md.Digest \notin DOMAIN layerCache'.layers
       ELSE /\ procs'[p].nreq = procs[p].nreq
            /\ LayerPath(procs[p].ref, procs[p].i) \in DOMAIN files'
            /\ inodes'[files'[LayerPath(procs[p].ref, procs[p].i)]]
                 = inodes[files[procs[p].md.Path]]]_vars

\* caller p is inside a RemoveImage that found its record
Removing(p) == procs[p].op = "remove" /\ procs[p].pc \notin {"idle", "done"}

\* the layers of the record that no other record uses
UnsharedLayers(p) ==
  {l \in LayersOfRecord([Layers |-> procs[p].layers]) :
     l.Digest \notin LayersInUse(images, procs[p].ref)}

(* C37: within RemoveImage the record is deleted and the metadata written
   last: when the record leaves the catalog the unshared layer files have
   been unlinked and the image directory is gone, the call changes no file
   afterwards and writes no metadata before, and when the removal of the
   directory fails the call returns an error with the record still in the
   catalog *)
RemoveDeletesRecordLast ==
  /\ [][\A p \in Procs : Removing(p) =>
           /\ (procs[p].ref \in DOMAIN images /\ procs[p].ref \notin DOMAIN images') =>
                /\ \A l \in UnsharedLayers(p) : l.Path \notin DOMAIN files
                /\ \A f \in DOMAIN files' : f.dir # procs[p].ref
           /\ procs[p].ref \notin DOMAIN images => files' = files
           /\ procs[p].ref \in DOMAIN images => (mdNames' = mdNames /\ mdInodes' = mdInodes)]_vars
  /\ [](\A p \in Procs :
          Failed(procs[p], "failed to remove image directory") => procs[p].ref \in DOMAIN images)

\* a RemoveImage of a record with layers has unlinked them, removed the
\* directory, deleted the record and saved
RemovedRecordWithLayers ==
  \E p \in Procs : RemoveSucceeded(p) /\ procs[p].layers # <<>> /\ procs[p].ref \notin DOMAIN images

----------------------------------------------------------------------------
(* Properties of cancellation *)

\* the context of the pull of caller p is cancelled
Cancelled(p) == procs[p].op = "pull" /\ procs[p].ctx = "cancelled"

\* a pull whose context was cancelled before it ended has returned an error
CancelledPullFails ==
  \A p \in Procs : (Cancelled(p) /\ procs[p].pc = "done") => ~procs[p].result.ok

(* C38: once the context passed to PullImage is cancelled, the pull sends no
   further request to the registry (probe, manifest or blob), returns an
   error and inserts no record in the catalog *)
CancelledPullStops ==
  /\ [][\A p \in Procs : (Cancelled(p) /\ procs[p].pc \notin {"idle", "done"}) =>
           /\ procs'[p].nreq = procs[p].nreq
           /\ images' = images]_vars
  /\ []CancelledPullFails

----------------------------------------------------------------------------
(* Frame of a pass of the collector *)

(* C39: a pass of the collector changes neither the in-memory catalog nor
   the layer cache nor metadata.json: a step of the pass only unlinks files
   under the image root and updates the state and the statistics of the
   collector; a failed unlink is skipped, the pass goes on and ends only
   when it has handled every unreferenced file *)
GCChangesOnlyFilesAndStats ==
  [][gc' # gc =>
       /\ images' = images
       /\ layerCache' = layerCache
       /\ mdNames' = mdNames
       /\ mdInodes' = mdInodes
       /\ procs' = procs
       /\ \A f \in DOMAIN files' : f \in DOMAIN files /\ files'[f] = files[f]
       /\ (gc'.failed \ gc.failed) # {} => gc'.pc = "sweep"
       /\ (gc.pc = "sweep" /\ gc'.pc = "idle") =>
            /\ (gc.layerFiles \ gc.referenced) \subseteq gc.seen
            /\ gc'.stats.TotalCollections = gc.stats.TotalCollections + 1]_vars

\* a pass has gone on after os.Remove failed for one file: it has removed
\* another file since, while the catalog and the cache are not empty
PassWentOnAfterFailure ==
  /\ gc.pc = "sweep"
  /\ gc.failed # {}
  /\ gc.removed > 0
  /\ (gc.layerFiles \ gc.referenced) \subseteq gc.seen
  /\ images # <<>>
  /\ layerCache.layers # <<>>

----------------------------------------------------------------------------
(* Properties of the locks *)

\* caller p is inside a call
InCall(p) == procs[p].pc \notin {"idle", "done"}

\* a step of a call in progress or of a pass in progress can be taken
SomeOperationCanStep ==
  \/ \E p \in Procs : InCall(p) /\ ENABLED (Step(p, {200}, {TRUE}, {"ok"}, {0}, {FALSE}) \/ StepNoPull(p))
  \/ gc.pc # "idle" /\ ENABLED GCPass

(* C40: no interleaving of PullImage, RemoveImage, ImageStatus, ListImages,
   AddImage and passes of the collector deadlocks: while an operation is in
   progress one of them can step, a caller that is not inside a call holds
   no lock, and every call and every pass that has begun ends *)
NoDeadlock ==
  /\ []((\E p \in Procs : InCall(p)) \/ gc.pc # "idle" => SomeOperationCanStep)
  /\ [](\A p \in Procs : ~InCall(p) => mu # p)
  /\ \A p \in Procs : InCall(p) ~> (procs[p].pc = "done")
  /\ (gc.pc # "idle") ~> (gc.pc = "idle")

\* a caller waits for the catalog lock that the other caller holds while the
\* collector is in a pass
WaitingForLock ==
  /\ procs["p1"].pc \in {"insert", "commit"}
  /\ mu = "p2"
  /\ gc.pc # "idle"

====
